---- MODULE Spec2Model ----
(***************************************************************************)
(* A model of the retrieval-and-orchestration core of the placement agent: *)
(* Planner, Executor, Critic, Synthesizer and the PlacementAgent.query     *)
(* loop, over the facts store, the semantic store and the LLM client.      *)
(*                                                                         *)
(* Conventions.  A Python str that the code inspects (queries, company     *)
(* names) is a sequence of one-character strings, so that lower(), title() *)
(* and the `in` substring test are computed and not assumed.  Enumerated   *)
(* strings (tool names, actions, intents, chunk types) are TLA+ strings.   *)
(* A Python dict is a function with a domain of strings; Get is dict.get.  *)
(* None is the record None; an absent str is NoneStr; an absent number is  *)
(* NoneNum.  A call that raises yields the value Raised.                   *)
(***************************************************************************)
EXTENDS Integers, Sequences, FiniteSets, TLC

\* ------------------------------------------------------------------------
\* Python values
\* ------------------------------------------------------------------------

None == [none |-> TRUE]

NoneStr == <<"<None>">>

NoneNum == 0 - 1

Raised == [raised |-> TRUE]

EmptyDict == [k \in {} |-> TRUE]

Get(d, k, default) == IF k \in DOMAIN d THEN d[k] ELSE default

\* bool(s) of an optional str
StrTruthy(s) == s # NoneStr /\ s # <<>>

\* bool(d) of an optional dict
DictTruthy(d) == d # None /\ DOMAIN d # {}

\* ------------------------------------------------------------------------
\* str operations
\* ------------------------------------------------------------------------

UpperChars == <<"A", "B", "C", "D", "E", "F", "G", "H", "I", "J", "K", "L", "M",
                "N", "O", "P", "Q", "R", "S", "T", "U", "V", "W", "X", "Y", "Z">>

LowerChars == <<"a", "b", "c", "d", "e", "f", "g", "h", "i", "j", "k", "l", "m",
                "n", "o", "p", "q", "r", "s", "t", "u", "v", "w", "x", "y", "z">>

DigitChars == <<"0", "1", "2", "3", "4", "5", "6", "7", "8", "9">>

IndexIn(c, chars) == IF \E k \in DOMAIN chars : chars[k] = c
                     THEN CHOOSE k \in DOMAIN chars : chars[k] = c
                     ELSE 0

LowerChar(c) == IF IndexIn(c, UpperChars) > 0 THEN LowerChars[IndexIn(c, UpperChars)] ELSE c

UpperChar(c) == IF IndexIn(c, LowerChars) > 0 THEN UpperChars[IndexIn(c, LowerChars)] ELSE c

IsLetter(c) == IndexIn(c, UpperChars) > 0 \/ IndexIn(c, LowerChars) > 0

IsDigit(c) == IndexIn(c, DigitChars) > 0

\* str.lower()
Lower(s) == [i \in 1..Len(s) |-> LowerChar(s[i])]

\* str.title(): a letter that follows a non-letter is upper-cased, any other lower-cased
Title(s) == [i \in 1..Len(s) |->
               IF i = 1 \/ ~IsLetter(s[i - 1]) THEN UpperChar(s[i]) ELSE LowerChar(s[i])]

\* needle in hay
Contains(hay, needle) ==
    \E i \in 0..(Len(hay) - Len(needle)) : SubSeq(hay, i + 1, i + Len(needle)) = needle

\* int(s) of a str of digits
RECURSIVE DigitsValue(_)
DigitsValue(s) == IF s = <<>> THEN 0
                  ELSE 10 * DigitsValue(SubSeq(s, 1, Len(s) - 1)) + (IndexIn(s[Len(s)], DigitChars) - 1)

\* re.findall(r'\d+', s): whether there is a match, and the first match
HasNumber(s) == \E i \in 1..Len(s) : IsDigit(s[i])

FirstNumber(s) ==
    LET start == CHOOSE i \in 1..Len(s) : IsDigit(s[i]) /\ \A j \in 1..(i - 1) : ~IsDigit(s[j])
        stop  == CHOOSE j \in start..Len(s) :
                     /\ \A k \in start..j : IsDigit(s[k])
                     /\ (j = Len(s) \/ ~IsDigit(s[j + 1]))
    IN  DigitsValue(SubSeq(s, start, stop))

\* ------------------------------------------------------------------------
\* sequences
\* ------------------------------------------------------------------------

Range(s) == {s[i] : i \in DOMAIN s}

RECURSIVE SelectIdx(_, _, _)
\* the elements s[i], i in order, whose index satisfies keep
SelectIdx(s, keep, i) == IF i > Len(s) THEN <<>>
                         ELSE (IF keep[i] THEN <<s[i]>> ELSE <<>>) \o SelectIdx(s, keep, i + 1)

RECURSIVE Flatten(_)
Flatten(ss) == IF ss = <<>> THEN <<>> ELSE Head(ss) \o Flatten(Tail(ss))

Take(s, n) == SubSeq(s, 1, IF Len(s) < n THEN Len(s) ELSE n)

\* ------------------------------------------------------------------------
\* Text of the inputs
\* ------------------------------------------------------------------------

S_dell == <<"d", "e", "l", "l">>

S_intel == <<"i", "n", "t", "e", "l">>

S_amazon == <<"a", "m", "a", "z", "o", "n">>

S_Dell == <<"D", "e", "l", "l">>

S_Intel == <<"I", "n", "t", "e", "l">>

S_Amazon == <<"A", "m", "a", "z", "o", "n">>

S_Bangalore == <<"B", "a", "n", "g", "a", "l", "o", "r", "e">>

S_Hyderabad == <<"H", "y", "d", "e", "r", "a", "b", "a", "d">>

S_Chennai == <<"C", "h", "e", "n", "n", "a", "i">>

S_Mumbai == <<"M", "u", "m", "b", "a", "i">>

S_Delhi == <<"D", "e", "l", "h", "i">>

S_Pune == <<"P", "u", "n", "e">>

S_Noida == <<"N", "o", "i", "d", "a">>

\* ------------------------------------------------------------------------
\* State
\* ------------------------------------------------------------------------

VARIABLES
    factsStore,     \* the facts index files: [status, facts]
    semanticStore,  \* the semantic index files: [status, metadata]
    hashOrder,      \* the iteration order of a set of str in this process
    use_llm,        \* PlacementAgent(use_llm=...)
    known,          \* Planner.KNOWN_COMPANIES
    pc,             \* the position of PlacementAgent.query
    user_query,     \* the argument of query
    planner_reply,  \* what the LLM backend gave the planner for this query
    plan,           \* QueryPlan
    result,         \* ExecutionResult
    feedback,       \* CriticFeedback
    retries,        \* the local retries of query
    answer,         \* the synthesized answer
    calls           \* how often each component has been invoked in this query

vars == <<factsStore, semanticStore, hashOrder, use_llm, known, pc, user_query,
          planner_reply, plan, result, feedback, retries, answer, calls>>

\* ------------------------------------------------------------------------
\* The stores the agent may be started on
\* ------------------------------------------------------------------------

DictStipend(n) == [type |-> "dict", amount |-> n]

NoStipend == [type |-> "dict", amount |-> NoneNum]

Fact(company, role, stipend, location, pk) ==
    [company_name |-> company, role_title |-> role, stipend_salary |-> stipend,
     location |-> location, primary_key |-> pk]

FullFacts == <<
    Fact(S_Amazon, "SDE Intern", DictStipend(30000), <<S_Bangalore>>, "amazon_sde"),
    Fact(S_Dell, "Software Intern", DictStipend(45000), <<S_Bangalore, S_Hyderabad>>, "dell_sw"),
    Fact(S_Intel, "Hardware Intern", DictStipend(50000), <<S_Hyderabad>>, "intel_hw"),
    Fact(S_Dell, "Data Intern", NoStipend, <<S_Pune>>, "dell_data") >>

Chunk(company, type, text, score) ==
    [company |-> company, role |-> "Intern", type |-> type, text |-> text,
     source |-> "jd", score |-> score]

\* metadata in the order FAISS ranks it; score is the similarity in hundredths
FullMetadata == <<
    Chunk(S_Dell, "interview_process", "dell interview rounds", 80),
    Chunk(S_Intel, "skills_required", "intel skills", 60),
    Chunk(S_Dell, "skills_required", "dell skills", 50),
    Chunk(S_Amazon, "about_company", "about amazon", 30),
    Chunk(S_Intel, "interview_process", "intel interview rounds", 10) >>

\* a semantic store in which the only chunk of Intel is below the search threshold for
\* the queries asked
FaintMetadata == <<
    Chunk(S_Dell, "interview_process", "dell interview rounds", 80),
    Chunk(S_Intel, "skills_required", "intel skills", 15) >>

\* a semantic store with more chunks above the threshold than any top_k a plan carries
\* but the retry's 10
LongMetadata == <<
    Chunk(S_Dell, "interview_process", "dell interview rounds", 80),
    Chunk(S_Intel, "skills_required", "intel skills", 60),
    Chunk(S_Dell, "skills_required", "dell skills", 50),
    Chunk(S_Amazon, "about_company", "about amazon", 45),
    Chunk(S_Intel, "interview_process", "intel interview rounds", 40),
    Chunk(S_Amazon, "skills_required", "amazon skills", 30) >>

\* the pairs of stores explored; facts and metadata are what the files held when the
\* agent was built, status is what loading them gives when a tool first needs them
Stores == {
    <<[status |-> "ok", facts |-> FullFacts], [status |-> "ok", metadata |-> FullMetadata]>>,
    <<[status |-> "ok", facts |-> <<>>], [status |-> "missing", metadata |-> <<>>]>>,
    <<[status |-> "missing", facts |-> <<>>], [status |-> "missing", metadata |-> <<>>]>>,
    <<[status |-> "ok", facts |-> FullFacts], [status |-> "missing", metadata |-> <<>>]>>,
    <<[status |-> "corrupt", facts |-> FullFacts], [status |-> "ok", metadata |-> FullMetadata]>>,
    <<[status |-> "ok", facts |-> FullFacts], [status |-> "ok", metadata |-> FaintMetadata]>>,
    <<[status |-> "ok", facts |-> FullFacts], [status |-> "ok", metadata |-> LongMetadata]>> }

HashOrders == {
    <<S_amazon, S_Amazon, S_dell, S_Dell, S_intel, S_Intel>>,
    <<S_Intel, S_dell, S_Amazon, S_intel, S_Dell, S_amazon>> }

\* list(S) for a set S of str
SetToList(S) == SelectIdx(hashOrder, [i \in DOMAIN hashOrder |-> hashOrder[i] \in S], 1)

\* ------------------------------------------------------------------------
\* FactsIndex
\* ------------------------------------------------------------------------

\* FactsIndex.load: True, False, or an exception for an unreadable index file
FactsLoad == CASE factsStore.status = "ok" -> "loaded"
               [] factsStore.status = "missing" -> "not_loaded"
               [] OTHER -> "raised"

IndexedFacts == IF factsStore.status = "ok" THEN factsStore.facts ELSE <<>>

\* the keys of _company_index in insertion order
RECURSIVE CompanyKeys(_)
CompanyKeys(fs) ==
    IF fs = <<>> THEN <<>>
    ELSE LET rest == CompanyKeys(SubSeq(fs, 1, Len(fs) - 1))
             c == Lower(fs[Len(fs)].company_name)
         IN  IF c = <<>> \/ c \in Range(rest) THEN rest ELSE Append(rest, c)

FactsOf(comp) ==
    SelectIdx(IndexedFacts,
              [i \in DOMAIN IndexedFacts |-> Lower(IndexedFacts[i].company_name) = comp], 1)

\* the body of get_by_company: the exact key, else every key that contains the name
\* or is contained in it
MatchCompany(company_lower, keys) ==
    IF company_lower \in Range(keys) THEN FactsOf(company_lower)
    ELSE Flatten([i \in DOMAIN keys |->
                    IF Contains(keys[i], company_lower) \/ Contains(company_lower, keys[i])
                    THEN FactsOf(keys[i]) ELSE <<>>])

get_by_company(company) == MatchCompany(Lower(company), CompanyKeys(IndexedFacts))

get_all_companies == SetToList({IndexedFacts[i].company_name : i \in DOMAIN IndexedFacts})

\* pd.DataFrame(rows) of _build_dataframe has its columns only when there are rows;
\* without them df['stipend_amount'], df['primary_key'] and df['locations'] raise KeyError
FrameHasColumns == IndexedFacts # <<>>

\* _parse_number of a stipend amount: NoneNum (NaN in the frame) when absent
stipend_amount(f) == f.stipend_salary.amount

\* filter_by_stipend with strict comparisons
filter_by_stipend_Strict(min_amount, max_amount) ==
    LET keep == { i \in DOMAIN IndexedFacts :
                    /\ min_amount # NoneNum =>
                         stipend_amount(IndexedFacts[i]) # NoneNum
                         /\ stipend_amount(IndexedFacts[i]) > min_amount
                    /\ max_amount # NoneNum =>
                         stipend_amount(IndexedFacts[i]) # NoneNum
                         /\ stipend_amount(IndexedFacts[i]) < max_amount }
        primary_keys == { IndexedFacts[i].primary_key : i \in keep }
    IN  SelectIdx(IndexedFacts,
                  [i \in DOMAIN IndexedFacts |-> IndexedFacts[i].primary_key \in primary_keys], 1)

filter_by_stipend(min_amount, max_amount) ==
    LET keep == { i \in DOMAIN IndexedFacts :
                    /\ min_amount # NoneNum =>
                         stipend_amount(IndexedFacts[i]) # NoneNum
                         /\ stipend_amount(IndexedFacts[i]) >= min_amount
                    /\ max_amount # NoneNum =>
                         stipend_amount(IndexedFacts[i]) # NoneNum
                         /\ stipend_amount(IndexedFacts[i]) <= max_amount }
        primary_keys == { IndexedFacts[i].primary_key : i \in keep }
    IN  SelectIdx(IndexedFacts,
                  [i \in DOMAIN IndexedFacts |-> IndexedFacts[i].primary_key \in primary_keys], 1)

RECURSIVE JoinComma(_)
\* ', '.join(ss)
JoinComma(ss) == IF ss = <<>> THEN <<>>
                 ELSE IF Len(ss) = 1 THEN ss[1]
                 ELSE ss[1] \o <<",", " ">> \o JoinComma(Tail(ss))

filter_by_location(location) ==
    LET keep == { i \in DOMAIN IndexedFacts :
                    Contains(Lower(JoinComma(IndexedFacts[i].location)), Lower(location)) }
        primary_keys == { IndexedFacts[i].primary_key : i \in keep }
    IN  SelectIdx(IndexedFacts,
                  [i \in DOMAIN IndexedFacts |-> IndexedFacts[i].primary_key \in primary_keys], 1)

\* ------------------------------------------------------------------------
\* SemanticIndex
\* ------------------------------------------------------------------------

\* SemanticIndex.load
SemanticLoad == CASE semanticStore.status = "ok" -> "loaded"
                  [] semanticStore.status = "missing" -> "not_loaded"
                  [] OTHER -> "raised"

Metadata == IF semanticStore.status = "ok" THEN semanticStore.metadata ELSE <<>>

\* threshold=0.2 of SemanticRAGTool.execute, in hundredths
SearchThreshold == 20

RECURSIVE Collect(_, _, _, _, _, _)
\* the loop of SemanticIndex.search over the ranked hits
Collect(hits, i, top_k, filter_company, filter_type, results) ==
    IF i > Len(hits) \/ Len(results) >= top_k THEN results
    ELSE LET meta == hits[i]
             skip == \/ meta.score < SearchThreshold
                     \/ StrTruthy(filter_company)
                        /\ ~Contains(Lower(meta.company), Lower(filter_company))
                     \/ filter_type # "None" /\ filter_type # meta.type
         IN  Collect(hits, i + 1, top_k, filter_company, filter_type,
                     IF skip THEN results ELSE Append(results, meta))

search(top_k, filter_company, filter_type) ==
    LET search_k == IF StrTruthy(filter_company) \/ filter_type # "None"
                    THEN top_k * 5 ELSE top_k
    IN  Collect(Take(Metadata, search_k), 1, top_k, filter_company, filter_type, <<>>)

get_all_by_company(company) ==
    SelectIdx(Metadata,
              [i \in DOMAIN Metadata |-> Contains(Lower(Metadata[i].company), Lower(company))], 1)

\* ------------------------------------------------------------------------
\* Tools
\* ------------------------------------------------------------------------

ToolResult(success, data, tool_name) ==
    [success |-> success, data |-> data, tool_name |-> tool_name]

\* a failure that still carries an empty payload
Failure_EmptyPayload(tool_name) ==
    ToolResult(FALSE, [results |-> <<>>, count |-> 0], tool_name)

Failure(tool_name) == ToolResult(FALSE, None, tool_name)

FormatDetails(fs) ==
    [i \in DOMAIN fs |->
        [company |-> fs[i].company_name, role |-> fs[i].role_title,
         stipend |-> fs[i].stipend_salary, location |-> fs[i].location]]

FormatStipend(fs) ==
    [i \in DOMAIN fs |->
        [company |-> fs[i].company_name, role |-> fs[i].role_title,
         stipend |-> [type |-> "num", amount |-> fs[i].stipend_salary.amount],
         location |-> fs[i].location]]

FormatLocation(fs) ==
    [i \in DOMAIN fs |->
        [company |-> fs[i].company_name, role |-> fs[i].role_title,
         location |-> fs[i].location, stipend |-> fs[i].stipend_salary]]

\* the result of _get_company_details for the facts fs found
DetailsResult(company, fs) ==
    IF fs = <<>> THEN Failure("facts_lookup")
    ELSE ToolResult(TRUE,
                    [company |-> company, roles |-> FormatDetails(fs), count |-> Len(fs)],
                    "facts_lookup")

_get_company_details(company) ==
    IF ~StrTruthy(company) THEN Failure("facts_lookup")
    ELSE DetailsResult(company, get_by_company(company))

\* the result of _filter_by_stipend for the facts fs found
StipendResult(fs) ==
    ToolResult(TRUE, [results |-> FormatStipend(fs), count |-> Len(fs)], "facts_lookup")

\* the KeyError of a frame without columns is caught by execute, which returns a failure
_filter_by_stipend(min_val, max_val) ==
    IF ~FrameHasColumns THEN Failure("facts_lookup")
    ELSE StipendResult(filter_by_stipend(min_val, max_val))

\* the result of _filter_by_location for the facts fs found
LocationResult(location, fs) ==
    ToolResult(TRUE,
               [results |-> FormatLocation(fs), count |-> Len(fs), location |-> location],
               "facts_lookup")

_filter_by_location(location) ==
    IF ~StrTruthy(location) \/ ~FrameHasColumns THEN Failure("facts_lookup")
    ELSE LocationResult(location, filter_by_location(location))

\* the result of _get_all_companies for the names found
_get_all_companies(companies) ==
    ToolResult(TRUE, [companies |-> companies, count |-> Len(companies)], "facts_lookup")

\* FactsLookupTool.execute(action=action, **kw); kw = None is a call with **None
FactsExecute(action, kw) ==
    IF kw = None \/ FactsLoad = "raised" THEN Raised
    ELSE IF FactsLoad = "not_loaded" THEN Failure("facts_lookup")
    ELSE CASE action = "get_all_companies" -> _get_all_companies(get_all_companies)
           [] action = "get_company_details" -> _get_company_details(Get(kw, "company", NoneStr))
           [] action = "filter_by_stipend" ->
                _filter_by_stipend(Get(kw, "min_value", NoneNum), Get(kw, "max_value", NoneNum))
           [] action = "filter_by_location" -> _filter_by_location(Get(kw, "location", NoneStr))
           [] OTHER -> Failure("facts_lookup")

FormatHits(hits) ==
    [i \in DOMAIN hits |->
        [company |-> hits[i].company, role |-> hits[i].role, type |-> hits[i].type,
         content |-> hits[i].text, relevance_score |-> hits[i].score, source |-> hits[i].source]]

\* type_filter of SemanticRAGTool.execute; "None" is no filter
TypeFilter(search_type) == IF search_type = "general" THEN "None" ELSE search_type

\* the result of SemanticRAGTool.execute for the hits found
SearchResult(kw, results) ==
    IF results = <<>>
    THEN ToolResult(TRUE, [results |-> <<>>, count |-> 0], "semantic_search")
    ELSE ToolResult(TRUE,
                    [results |-> FormatHits(results), count |-> Len(results),
                     context |-> [i \in DOMAIN results |-> results[i].text],
                     query |-> kw.query,
                     filters |-> [type |-> Get(kw, "search_type", "general"),
                                  company |-> Get(kw, "company", NoneStr)]],
                    "semantic_search")

\* SemanticRAGTool.execute(**kw)
SemanticExecute(kw) ==
    IF kw = None \/ "query" \notin DOMAIN kw \/ SemanticLoad = "raised" THEN Raised
    ELSE IF SemanticLoad = "not_loaded" THEN Failure("semantic_search")
    ELSE IF ~StrTruthy(kw.query) THEN Failure("semantic_search")
    ELSE SearchResult(kw, search(Get(kw, "top_k", 5), Get(kw, "company", NoneStr),
                                 TypeFilter(Get(kw, "search_type", "general"))))

FoundCompanies(companies) ==
    SelectIdx(companies, [i \in DOMAIN companies |-> get_by_company(companies[i]) # <<>>], 1)

\* company_data of _compare_table: taken from the first role
TableRow(fact) == [role |-> fact.role_title, stipend |-> fact.stipend_salary.amount]

TableResult(found) ==
    ToolResult(TRUE,
               [comparison |-> [c \in Range(found) |-> TableRow(get_by_company(c)[1])],
                companies |-> found,
                attributes |-> <<"stipend", "cgpa", "location", "duration", "num_rounds", "work_mode">>],
               "compare_companies")

_compare_table(companies) == TableResult(FoundCompanies(companies))

\* the keys of the dict detailed of _compare_detailed, in insertion order
DetailedCompanies(companies) ==
    SelectIdx(companies,
              [i \in DOMAIN companies |->
                  /\ \A j \in 1..(i - 1) : companies[j] # companies[i]
                  /\ (get_by_company(companies[i]) # <<>>
                      \/ get_all_by_company(companies[i]) # <<>>)], 1)

DetailedResult(with) ==
    ToolResult(TRUE,
               [detailed_comparison |->
                   [c \in Range(with) |->
                       [facts |-> Take(FormatDetails(get_by_company(c)), 1),
                        chunks |-> get_all_by_company(c)]],
                companies |-> with],
               "compare_companies")

_compare_detailed(companies) == DetailedResult(DetailedCompanies(companies))

\* CompareCompaniesTool.execute(**kw)
CompareExecute(kw) ==
    IF kw = None \/ "companies" \notin DOMAIN kw THEN Raised
    ELSE IF FactsLoad = "raised" \/ SemanticLoad = "raised" THEN Raised
    ELSE IF Len(kw.companies) < 2 THEN Failure("compare_companies")
    ELSE IF Get(kw, "comparison_type", "table") = "detailed" THEN _compare_detailed(kw.companies)
    ELSE _compare_table(kw.companies)

\* ------------------------------------------------------------------------
\* AgentLLM
\* ------------------------------------------------------------------------

JDict(d) == [type |-> "dict", val |-> d]

JList(l) == [type |-> "list", val |-> l]

NoMatch == [type |-> "nomatch"]

Invalid == [type |-> "invalid"]

\* What the model returns as text.  empty: the text is ''.  direct: json.loads of
\* the whole text (Invalid when it raises).  fenced_json, fenced, braces: for each
\* pattern of _parse_json, NoMatch, or json.loads of the matched group.
Text(direct, fenced_json, fenced, braces) ==
    [empty |-> FALSE, direct |-> direct, fenced_json |-> fenced_json,
     fenced |-> fenced, braces |-> braces]

EmptyText == [empty |-> TRUE, direct |-> Invalid, fenced_json |-> NoMatch,
              fenced |-> NoMatch, braces |-> NoMatch]

\* a text of n characters that holds no JSON, as the synthesizer's prompt asks for
Words(n) == [empty |-> n = 0, direct |-> Invalid, fenced_json |-> NoMatch,
             fenced |-> NoMatch, braces |-> NoMatch, len |-> n]

PlainJson(j) == Text(j, NoMatch, NoMatch, NoMatch)

FencedJson(j) == Text(Invalid, j, Invalid, j)

EmbeddedJson(j) == Text(Invalid, NoMatch, NoMatch, j)

Prose == Text(Invalid, NoMatch, NoMatch, NoMatch)

BrokenFence == Text(Invalid, Invalid, Invalid, Invalid)

\* an outcome of the backend: [error |-> TRUE], or [error |-> FALSE, text |-> t]
BackendError == [error |-> TRUE]

BackendText(t) == [error |-> FALSE, text |-> t]

\* AgentLLM.generate
generate(outcome) == IF outcome.error THEN EmptyText ELSE outcome.text

IsJson(m) == m # NoMatch /\ m # Invalid

\* AgentLLM._parse_json
_parse_json(response) ==
    IF response.empty THEN None
    ELSE IF IsJson(response.direct) THEN response.direct
    ELSE IF IsJson(response.fenced_json) THEN response.fenced_json
    ELSE IF IsJson(response.fenced) THEN response.fenced
    ELSE IF IsJson(response.braces) THEN response.braces
    ELSE None

\* AgentLLM.generate_json
generate_json(outcome) == _parse_json(generate(outcome))

\* bool(j) of what generate_json returns
JsonTruthy(j) == j # None /\ (j.type = "dict" => DOMAIN j.val # {}) /\ (j.type = "list" => j.val # <<>>)

\* ------------------------------------------------------------------------
\* Planner
\* ------------------------------------------------------------------------

AggregationPhrases == {
    <<"h", "o", "w", " ", "m", "a", "n", "y">>,
    <<"l", "i", "s", "t", " ", "a", "l", "l">>,
    <<"w", "h", "i", "c", "h", " ", "c", "o", "m", "p", "a", "n", "i", "e", "s">>,
    <<"c", "o", "u", "n", "t">> }

FilterPhrases == {
    <<"c", "o", "m", "p", "a", "n", "i", "e", "s", " ", "i", "n">>,
    <<"c", "o", "m", "p", "a", "n", "i", "e", "s", " ", "w", "i", "t", "h">>,
    <<"s", "t", "i", "p", "e", "n", "d", " ", "m", "o", "r", "e">>,
    <<"c", "g", "p", "a", " ", "l", "e", "s", "s">> }

ComparisonKeywords == {
    <<"c", "o", "m", "p", "a", "r", "e">>,
    <<"v", "s">>,
    <<"v", "e", "r", "s", "u", "s">> }

K_stipend == <<"s", "t", "i", "p", "e", "n", "d">>

ComparatorWords == {
    <<"m", "o", "r", "e">>,
    <<"g", "r", "e", "a", "t", "e", "r">>,
    <<"a", "b", "o", "v", "e">> }

\* the locations dict of _plan_aggregation, in insertion order
LocationKeys == <<
    <<"b", "a", "n", "g", "a", "l", "o", "r", "e">>,
    <<"h", "y", "d", "e", "r", "a", "b", "a", "d">>,
    <<"c", "h", "e", "n", "n", "a", "i">>,
    <<"m", "u", "m", "b", "a", "i">>,
    <<"d", "e", "l", "h", "i">>,
    <<"p", "u", "n", "e">>,
    <<"n", "o", "i", "d", "a">> >>

LocationValues == <<S_Bangalore, S_Hyderabad, S_Chennai, S_Mumbai, S_Delhi, S_Pune, S_Noida>>

\* the fuzzy dict of _extract_companies_fuzzy: <<misspelling, correct>>
FuzzyTable == {
    <<<<"i", "n", "t", "e", "l", "l">>, S_intel>>,
    <<S_dell, S_dell>>,
    <<<<"n", "v", "i", "d", "i", "a">>, <<"n", "v", "i", "d", "i", "a">>>>,
    <<<<"b", "o", "s", "c", "h">>, <<"b", "o", "s", "c", "h">>>>,
    <<S_amazon, S_amazon>> }

QueryPlan(original_query, intent, tools_to_use, is_comparison, companies_mentioned, attributes_requested, needs_enrichment, reasoning) ==
    [original_query |-> original_query, intent |-> intent, tools_to_use |-> tools_to_use,
     is_comparison |-> is_comparison, companies_mentioned |-> companies_mentioned,
     attributes_requested |-> attributes_requested, needs_enrichment |-> needs_enrichment,
     fallback_to_hybrid |-> FALSE, reasoning |-> reasoning]

_extract_companies_fuzzy(query) ==
    LET query_lower == Lower(query)
        companies == { c \in known : Contains(query_lower, c) }
        fuzzy == { f[2] : f \in { g \in FuzzyTable :
                                    /\ Contains(query_lower, g[1])
                                    /\ g[2] \in known
                                    /\ g[2] \notin companies } }
    IN  SetToList(companies \cup fuzzy)

_plan_aggregation(query, companies) ==
    LET hit == { i \in DOMAIN LocationKeys : Contains(query, LocationKeys[i]) }
        first == CHOOSE i \in hit : \A j \in hit : i <= j
        stipend == /\ Contains(query, K_stipend)
                   /\ HasNumber(query)
                   /\ \E kw \in ComparatorWords : Contains(query, kw)
        action == IF stipend THEN "filter_by_stipend"
                  ELSE IF hit # {} THEN "filter_by_location"
                  ELSE "get_all_companies"
        params == IF hit # {}
                  THEN IF stipend
                       THEN [location |-> LocationValues[first], min_value |-> FirstNumber(query)]
                       ELSE [location |-> LocationValues[first]]
                  ELSE IF stipend THEN [min_value |-> FirstNumber(query)]
                       ELSE EmptyDict
    IN  QueryPlan(query, "aggregation",
                  <<[tool |-> "facts_lookup", action |-> action, params |-> params]>>,
                  FALSE, companies, <<>>, FALSE, "Aggregation query")

_plan_comparison(query, companies) ==
    QueryPlan(query, "comparison",
              <<[tool |-> "compare_companies",
                 params |-> [companies |-> companies, comparison_type |-> "detailed"]]>>,
              TRUE, companies, <<>>, TRUE, "Comparison query")

_plan_hybrid(query, companies) ==
    QueryPlan(query, "hybrid",
              <<[tool |-> "hybrid_search",
                 params |-> [query |-> query, companies |-> companies, top_k |-> 5]]>>,
              FALSE, companies, <<>>, TRUE, "Hybrid query for comprehensive results")

\* _analyze_rule_based that tests for a comparison before it tests for an aggregation
_analyze_rule_based_ComparisonFirst(query, companies) ==
    LET query_lower == Lower(query)
        is_aggregation == \E ph \in AggregationPhrases : Contains(query_lower, ph)
        is_filter == \E ph \in FilterPhrases : Contains(query_lower, ph)
        is_comparison == \/ Len(companies) >= 2
                         \/ \E kw \in ComparisonKeywords : Contains(query_lower, kw)
    IN  IF is_comparison THEN _plan_comparison(query, companies)
        ELSE IF is_aggregation \/ is_filter THEN _plan_aggregation(query_lower, companies)
        ELSE IF companies # <<>> THEN _plan_hybrid(query, companies)
        ELSE _plan_hybrid(query, <<>>)

_analyze_rule_based(query, companies) ==
    LET query_lower == Lower(query)
        is_aggregation == \E ph \in AggregationPhrases : Contains(query_lower, ph)
        is_filter == \E ph \in FilterPhrases : Contains(query_lower, ph)
        is_comparison == \/ Len(companies) >= 2
                         \/ \E kw \in ComparisonKeywords : Contains(query_lower, kw)
    IN  IF is_aggregation \/ is_filter THEN _plan_aggregation(query_lower, companies)
        ELSE IF is_comparison THEN _plan_comparison(query, companies)
        ELSE IF companies # <<>> THEN _plan_hybrid(query, companies)
        ELSE _plan_hybrid(query, <<>>)

\* _analyze_with_llm whose fallback is the hybrid plan, not the rule-based analysis
_analyze_with_llm_HybridFallback(query, detected_companies, parsed) ==
    IF ~JsonTruthy(parsed) THEN _plan_hybrid(query, detected_companies)
    ELSE IF parsed.type # "dict" THEN Raised
    ELSE IF Get(parsed.val, "tool", EmptyDict) = None THEN Raised
    ELSE QueryPlan(query, Get(parsed.val, "intent", "general"),
                   <<[tool |-> Get(Get(parsed.val, "tool", EmptyDict), "name", "hybrid_search"),
                      action |-> Get(Get(parsed.val, "tool", EmptyDict), "action", "None"),
                      params |-> Get(Get(parsed.val, "tool", EmptyDict), "params", EmptyDict)]>>,
                   Get(parsed.val, "is_comparison", FALSE),
                   SetToList(Range(Get(parsed.val, "companies", <<>>)) \cup Range(detected_companies)),
                   Get(parsed.val, "attributes", <<>>), ~Get(parsed.val, "is_aggregation", FALSE),
                   Get(parsed.val, "reasoning", "LLM analysis"))

\* parsed is what generate_json returned
_analyze_with_llm(query, detected_companies, parsed) ==
    IF ~JsonTruthy(parsed) THEN _analyze_rule_based(query, detected_companies)
    ELSE IF parsed.type # "dict" THEN Raised
    ELSE IF Get(parsed.val, "tool", EmptyDict) = None THEN Raised
    ELSE LET r == parsed.val
             tool_config == Get(r, "tool", EmptyDict)
             tools == <<[tool |-> Get(tool_config, "name", "hybrid_search"),
                         action |-> Get(tool_config, "action", "None"),
                         params |-> Get(tool_config, "params", EmptyDict)]>>
             companies == SetToList(Range(Get(r, "companies", <<>>)) \cup Range(detected_companies))
         IN  QueryPlan(query, Get(r, "intent", "general"), tools,
                       Get(r, "is_comparison", FALSE), companies,
                       Get(r, "attributes", <<>>), ~Get(r, "is_aggregation", FALSE),
                       Get(r, "reasoning", "LLM analysis"))

\* Planner.analyze; llm_outcome is what the backend does when asked
AnalyzeWith(query, companies, llm_outcome) ==
    IF use_llm THEN _analyze_with_llm(query, companies, generate_json(llm_outcome))
    ELSE _analyze_rule_based(query, companies)

analyze(query, llm_outcome) == AnalyzeWith(query, _extract_companies_fuzzy(query), llm_outcome)

\* ------------------------------------------------------------------------
\* Executor
\* ------------------------------------------------------------------------

\* Executor.SEMANTIC_TOP_K
SEMANTIC_TOP_K == 3

ToolTypes == {"facts_lookup", "semantic_search", "compare_companies", "hybrid_search"}

HasData(r) == r.success /\ DictTruthy(r.data)

RECURSIVE DetailsOfAll(_, _), DetailsStep(_, _, _)
\* the loop of _execute_facts over plan.companies_mentioned: the roles gathered, and
\* whether a lookup raised
DetailsOfAll(companies, acc) ==
    IF companies = <<>> THEN [raised |-> FALSE, roles |-> acc]
    ELSE DetailsStep(companies, acc,
                     FactsExecute("get_company_details", [company |-> Head(companies)]))

\* a pass of that loop that stops at the first company with data
DetailsStep_FirstOnly(companies, acc, r) ==
    IF r = Raised THEN [raised |-> TRUE, roles |-> <<>>]
    ELSE IF HasData(r) THEN [raised |-> FALSE, roles |-> Get(r.data, "roles", <<>>)]
    ELSE DetailsOfAll(Tail(companies), acc)

\* one pass of that loop, r being the lookup of the first company
DetailsStep(companies, acc, r) ==
    IF r = Raised THEN [raised |-> TRUE, roles |-> <<>>]
    ELSE DetailsOfAll(Tail(companies),
                      IF HasData(r) THEN acc \o Get(r.data, "roles", <<>>) ELSE acc)

\* what _execute_facts returns once the loop has gathered all_results
CombinedRoles(all_results, fallback) ==
    IF all_results.raised THEN Raised
    ELSE IF all_results.roles # <<>>
    THEN ToolResult(TRUE,
                    [roles |-> all_results.roles, count |-> Len(all_results.roles)],
                    "facts_lookup")
    ELSE fallback

_execute_facts(tool_call, qp) ==
    IF qp.companies_mentioned # <<>>
       /\ Get(tool_call, "action", "get_all_companies") = "get_company_details"
    THEN CombinedRoles(DetailsOfAll(qp.companies_mentioned, <<>>),
                       FactsExecute("get_company_details", Get(tool_call, "params", EmptyDict)))
    ELSE FactsExecute(Get(tool_call, "action", "get_all_companies"),
                      Get(tool_call, "params", EmptyDict))

_execute_semantic(params) == SemanticExecute(params)

_execute_compare(params, qp) == CompareExecute(params)

\* a semantic call of _execute_hybrid that takes the top_k of the plan's params
HybridTopK_FromParams(params) == Get(params, "top_k", SEMANTIC_TOP_K)

\* the top_k of the semantic call of _execute_hybrid
HybridTopK(params) == SEMANTIC_TOP_K

\* the companies of the semantic hits of _execute_hybrid
HitCompanies(semantic_result) ==
    IF semantic_result # Raised /\ HasData(semantic_result)
    THEN { h.company : h \in { g \in Range(Get(semantic_result.data, "results", <<>>)) :
                                  StrTruthy(g.company) } }
    ELSE {}

\* the facts lookup of _execute_hybrid for every company found
LookUp(companies_found) ==
    [c \in companies_found |-> FactsExecute("get_company_details", [company |-> c])]

\* a hybrid result that is a failure when no company was found
HybridResult_FailWhenEmpty(semantic_result, looked) ==
    IF semantic_result = Raised \/ \E c \in DOMAIN looked : looked[c] = Raised THEN Raised
    ELSE IF DOMAIN looked = {} THEN Failure("hybrid_search")
    ELSE ToolResult(TRUE,
                    [semantic_results |-> IF semantic_result.success
                                          THEN semantic_result.data ELSE EmptyDict,
                     facts_data |-> [c \in { d \in DOMAIN looked : HasData(looked[d]) } |->
                                       looked[c].data],
                     companies |-> SetToList(DOMAIN looked)],
                    "hybrid_search")

\* a hybrid result that succeeds only when the semantic search did
HybridResult_AsSemantic(semantic_result, looked) ==
    IF semantic_result = Raised \/ \E c \in DOMAIN looked : looked[c] = Raised THEN Raised
    ELSE ToolResult(semantic_result.success,
                    [semantic_results |-> IF semantic_result.success
                                          THEN semantic_result.data ELSE EmptyDict,
                     facts_data |-> [c \in { d \in DOMAIN looked : HasData(looked[d]) } |->
                                       looked[c].data],
                     companies |-> SetToList(DOMAIN looked)],
                    "hybrid_search")

\* what _execute_hybrid returns for the semantic result and the lookups made
HybridResult(semantic_result, looked) ==
    IF semantic_result = Raised \/ \E c \in DOMAIN looked : looked[c] = Raised THEN Raised
    ELSE ToolResult(TRUE,
                    [semantic_results |-> IF semantic_result.success
                                          THEN semantic_result.data ELSE EmptyDict,
                     facts_data |-> [c \in { d \in DOMAIN looked : HasData(looked[d]) } |->
                                       looked[c].data],
                     companies |-> SetToList(DOMAIN looked)],
                    "hybrid_search")

\* _execute_hybrid once the semantic search has returned
HybridFacts(companies, semantic_result) ==
    HybridResult(semantic_result,
                 IF semantic_result = Raised THEN EmptyDict
                 ELSE LookUp(Range(companies) \cup HitCompanies(semantic_result)))

\* _execute_hybrid that hands the top_k of its params to the semantic search
_execute_hybrid_ParamsTopK(params, qp) ==
    IF params = None THEN Raised
    ELSE HybridFacts(Get(params, "companies", qp.companies_mentioned),
                     SemanticExecute([query |-> Get(params, "query", qp.original_query),
                                      search_type |-> "general",
                                      top_k |-> Get(params, "top_k", SEMANTIC_TOP_K)]))

_execute_hybrid(params, qp) ==
    IF params = None THEN Raised
    ELSE HybridFacts(Get(params, "companies", qp.companies_mentioned),
                     SemanticExecute([query |-> Get(params, "query", qp.original_query),
                                      search_type |-> "general",
                                      top_k |-> HybridTopK(params)]))

\* one pass of the loop of Executor.execute: a ToolResult, Raised (the except branch),
\* or Unknown (the else branch)
Unknown == [unknown |-> TRUE]

Dispatch(tool_call, qp) ==
    LET tool_type == Get(tool_call, "tool", "None")
        params == Get(tool_call, "params", EmptyDict)
    IN  CASE tool_type = "facts_lookup" -> _execute_facts(tool_call, qp)
          [] tool_type = "semantic_search" -> _execute_semantic(params)
          [] tool_type = "compare_companies" -> _execute_compare(params, qp)
          [] tool_type = "hybrid_search" -> _execute_hybrid(params, qp)
          [] OTHER -> Unknown

\* the four sub-queries of _enrich_comprehensive, in dict order
EnrichCategories == <<"skills_required", "interview_process", "roles_responsibilities",
                      "about_company">>

\* the companies a tool result names
CompaniesIn(r) ==
    IF ~HasData(r) THEN {}
    ELSE LET data == r.data
             listed == Get(data, "results",
                           Get(Get(data, "semantic_results", EmptyDict), "results", <<>>))
             roles == Get(data, "roles", <<>>)
         IN  { Lower(listed[i].company) : i \in { j \in DOMAIN listed : StrTruthy(listed[j].company) } }
             \cup { Lower(roles[i].company) : i \in { j \in DOMAIN roles : StrTruthy(roles[j].company) } }
             \cup { Lower(c) : c \in DOMAIN Get(data, "facts_data", EmptyDict) }

EnrichSemantic(company_lower, cat) ==
    SemanticExecute([query |-> company_lower \o <<" ", cat>>, search_type |-> cat,
                     company |-> company_lower, top_k |-> SEMANTIC_TOP_K])

\* the contents kept for one category: c['content'] for c in results[:SEMANTIC_TOP_K]
Contents(results) ==
    [i \in DOMAIN Take(results, SEMANTIC_TOP_K) |-> results[i].content]

\* the categories whose search gave results
Filled(sem) ==
    { cat \in DOMAIN sem :
        sem[cat] # Raised /\ HasData(sem[cat]) /\ Get(sem[cat].data, "results", <<>>) # <<>> }

\* enriched[company.title()] of _enrich_comprehensive, for the lookups made
EnrichEntry(company_lower, fact_result, sem) ==
    IF fact_result = Raised \/ \E cat \in DOMAIN sem : sem[cat] = Raised
    THEN Raised
    ELSE [company |-> Title(company_lower),
          facts |-> IF HasData(fact_result) THEN Get(fact_result.data, "roles", <<>>) ELSE <<>>,
          semantic |-> [cat \in Filled(sem) |-> Contents(sem[cat].data.results)]]

EnrichOne(company_lower) ==
    EnrichEntry(company_lower,
                FactsExecute("get_company_details", [company |-> company_lower]),
                [cat \in Range(EnrichCategories) |-> EnrichSemantic(company_lower, cat)])

\* companies_to_enrich of _enrich_comprehensive, in the order the set is iterated
CompaniesToEnrich(tool_results, qp) ==
    SetToList({ c \in { Lower(d) : d \in Range(qp.companies_mentioned) }
                      \cup UNION { CompaniesIn(tool_results[i]) : i \in DOMAIN tool_results } :
                c # <<>> })

Enriched(entries) ==
    IF \E i \in DOMAIN entries : entries[i] = Raised THEN Raised
    ELSE [entries |-> entries]

EnrichAll(order) == Enriched([i \in DOMAIN order |-> EnrichOne(order[i])])

_enrich_comprehensive(tool_results, qp) == EnrichAll(CompaniesToEnrich(tool_results, qp))

RECURSIVE RunTools(_, _, _, _), RunStep(_, _, _, _, _)

\* the loop of execute with the try around the whole loop: the first tool call that
\* raises ends the batch
RunStep_Abort(tools, qp, tool_results, errors, r) ==
    IF r = Unknown
    THEN RunTools(Tail(tools), qp, tool_results,
                  Append(errors, [error |-> "Unknown tool", tool |-> Get(Head(tools), "tool", "None")]))
    ELSE IF r = Raised
    THEN [tool_results |-> tool_results,
          errors |-> Append(errors, [error |-> "Error", tool |-> Get(Head(tools), "tool", "None")])]
    ELSE RunTools(Tail(tools), qp, Append(tool_results, r), errors)

\* the loop of Executor.execute
RunTools(tools, qp, tool_results, errors) ==
    IF tools = <<>> THEN [tool_results |-> tool_results, errors |-> errors]
    ELSE RunStep(tools, qp, tool_results, errors, Dispatch(Head(tools), qp))

\* one pass of that loop, r being what the tool call gave
RunStep(tools, qp, tool_results, errors, r) ==
    IF r = Unknown
    THEN RunTools(Tail(tools), qp, tool_results,
                  Append(errors, [error |-> "Unknown tool", tool |-> Get(Head(tools), "tool", "None")]))
    ELSE IF r = Raised
    THEN RunTools(Tail(tools), qp, tool_results,
                  Append(errors, [error |-> "Error", tool |-> Get(Head(tools), "tool", "None")]))
    ELSE RunTools(Tail(tools), qp, Append(tool_results, r), errors)

\* a test that enriches whenever the plan asks for it, aggregation or not
ShouldEnrich_IgnoringIntent(qp) == qp.needs_enrichment

\* the test of Executor.execute before the enrichment
ShouldEnrich(qp) == qp.needs_enrichment /\ qp.intent # "aggregation"

\* an ExecutionResult that succeeds when tools ran and no error was recorded
ExecutionResult_NoErrors(tool_results, enriched_results, errors) ==
    IF enriched_results = Raised THEN Raised
    ELSE [success |-> tool_results # <<>> /\ errors = <<>>,
          tool_results |-> tool_results,
          enriched_results |-> enriched_results,
          errors |-> errors]

\* Executor.execute
ExecutionResult(tool_results, enriched_results, errors) ==
    IF enriched_results = Raised THEN Raised
    ELSE [success |-> \E i \in DOMAIN tool_results : tool_results[i].success,
          tool_results |-> tool_results,
          enriched_results |-> enriched_results,
          errors |-> errors]

\* Executor.execute after its loop over the tools
Finish(qp, ran) ==
    ExecutionResult(ran.tool_results,
                    IF ShouldEnrich(qp) THEN _enrich_comprehensive(ran.tool_results, qp) ELSE None,
                    ran.errors)

execute(qp) == Finish(qp, RunTools(qp.tools_to_use, qp, <<>>, <<>>))

\* ------------------------------------------------------------------------
\* Critic
\* ------------------------------------------------------------------------

\* confidence < 0.4 of _evaluate_rule_based, in hundredths
RetryThreshold == 40

HighConfidence == 80

LowConfidence == 20

DefaultConfidence == 50

CriticFeedback(is_complete, is_relevant, confidence_score, needs_retry, retry_suggestions, reasoning) ==
    [is_complete |-> is_complete, is_relevant |-> is_relevant, missing_info |-> <<>>,
     suggestions |-> <<>>, confidence_score |-> confidence_score, needs_retry |-> needs_retry,
     retry_suggestions |-> retry_suggestions, reasoning |-> reasoning]

EnrichedTruthy(e) == e # None /\ e.entries # <<>>

_evaluate_rule_based(qp, res) ==
    LET has_data == \/ \E i \in DOMAIN res.tool_results : HasData(res.tool_results[i])
                    \/ EnrichedTruthy(res.enriched_results)
        confidence == IF has_data THEN HighConfidence ELSE LowConfidence
    IN  CriticFeedback(has_data, has_data, confidence, confidence < RetryThreshold, <<>>,
                       "Rule-based evaluation")

\* eval_result is what generate_json returned
_evaluate_with_llm(qp, res, eval_result) ==
    IF ~JsonTruthy(eval_result) THEN _evaluate_rule_based(qp, res)
    ELSE IF eval_result.type # "dict" THEN Raised
    ELSE LET e == eval_result.val
         IN  CriticFeedback(Get(e, "is_complete", FALSE), Get(e, "is_relevant", FALSE),
                            Get(e, "confidence", DefaultConfidence),
                            Get(e, "needs_retry", FALSE),
                            IF Get(e, "needs_retry", FALSE)
                            THEN <<[tool |-> "hybrid_search"]>> ELSE <<>>,
                            Get(e, "reasoning", ""))

\* Critic.evaluate; the summary of the results only enters the prompt
evaluate(qp, res, llm_outcome) ==
    IF use_llm THEN _evaluate_with_llm(qp, res, generate_json(llm_outcome))
    ELSE _evaluate_rule_based(qp, res)

\* ------------------------------------------------------------------------
\* Synthesizer
\* ------------------------------------------------------------------------

CompaniesCap == 25

ResultsCap == 20

MinResponseLen == 50

SelectionWords == {
    <<"s", "e", "l", "e", "c", "t", "i", "o", "n">>,
    <<"i", "n", "t", "e", "r", "v", "i", "e", "w">>,
    <<"p", "r", "o", "c", "e", "s", "s">>,
    <<"r", "o", "u", "n", "d", "s">> }

SkillsWords == {
    <<"s", "k", "i", "l", "l", "s">>,
    <<"r", "e", "q", "u", "i", "r", "e", "m", "e", "n", "t", "s">> }

_no_data_response(qp) == [kind |-> "no_data", query |-> qp.original_query]

Rendered(parts, qp) == IF parts = <<>> THEN _no_data_response(qp)
                       ELSE [kind |-> "lines", parts |-> parts]

\* the amount a line shows: stipend must be a dict with a truthy amount
ShownAmount(stipend) ==
    IF stipend.type = "dict" /\ stipend.amount # NoneNum /\ stipend.amount # 0
    THEN stipend.amount ELSE NoneNum

AggregationLines(data) ==
    IF "companies" \in DOMAIN data
    THEN LET count == Len(data.companies)
             shown == Take(data.companies, CompaniesCap)
         IN  <<[line |-> "found_companies", count |-> count]>>
             \o [i \in DOMAIN shown |-> [line |-> "company", i |-> i, name |-> shown[i]]]
             \o (IF count > CompaniesCap
                 THEN <<[line |-> "more", n |-> count - CompaniesCap]>> ELSE <<>>)
    ELSE IF "results" \in DOMAIN data
    THEN LET results == data.results
             shown == Take(results, ResultsCap)
         IN  <<[line |-> "matching", count |-> Len(results),
                location |-> Get(data, "location", NoneStr)]>>
             \o [i \in DOMAIN shown |->
                   [line |-> "result", company |-> shown[i].company, role |-> shown[i].role,
                    amount |-> ShownAmount(Get(shown[i], "stipend", [type |-> "str"]))]]
    ELSE <<>>

_synthesize_aggregation(qp, res) ==
    Rendered(Flatten([i \in DOMAIN res.tool_results |->
                        IF HasData(res.tool_results[i])
                        THEN AggregationLines(res.tool_results[i].data) ELSE <<>>]), qp)

CompanyLines(entry, wants_selection, wants_skills) ==
    <<[line |-> "company_header", name |-> entry.company]>>
    \o (IF entry.facts # <<>>
        THEN <<[line |-> "roles"]>>
             \o [i \in DOMAIN entry.facts |->
                   [line |-> "role", role |-> entry.facts[i].role,
                    amount |-> ShownAmount(entry.facts[i].stipend)]]
        ELSE <<>>)
    \o (IF wants_selection /\ "interview_process" \in DOMAIN entry.semantic
        THEN <<[line |-> "selection", text |-> entry.semantic["interview_process"]]>> ELSE <<>>)
    \o (IF wants_skills /\ "skills_required" \in DOMAIN entry.semantic
        THEN <<[line |-> "skills", text |-> entry.semantic["skills_required"]]>> ELSE <<>>)

\* enriched is the sequence of entries of enriched_results, empty for None
_synthesize_rule_based(qp, enriched) ==
    LET query_lower == Lower(qp.original_query)
        wants_selection == \E kw \in SelectionWords : Contains(query_lower, kw)
        wants_skills == \E kw \in SkillsWords : Contains(query_lower, kw)
    IN  Rendered(Flatten([i \in DOMAIN enriched |->
                            CompanyLines(enriched[i], wants_selection, wants_skills)]), qp)

LongEnough(response) == ~response.empty /\ response.len > MinResponseLen

\* what synthesize hands back: the answer, and whether the LLM was asked for text
Answer(text, generated) == [text |-> text, generated |-> generated]

\* response is what generate returned; the context only enters the prompt
_synthesize_with_llm(qp, enriched, res, response) ==
    IF LongEnough(response) THEN Answer([kind |-> "llm", text |-> response], TRUE)
    ELSE Answer(_synthesize_rule_based(qp, enriched), TRUE)

\* synthesize that tests use_llm before the intent
synthesize_LLMFirst(qp, res, fb, llm_outcome) ==
    IF use_llm /\ res.tool_results # <<>>
    THEN _synthesize_with_llm(qp, IF res.enriched_results = None THEN <<>>
                                  ELSE res.enriched_results.entries,
                              res, generate(llm_outcome))
    ELSE IF qp.intent = "aggregation" THEN Answer(_synthesize_aggregation(qp, res), FALSE)
    ELSE Answer(_no_data_response(qp), FALSE)

\* Synthesizer.synthesize
synthesize(qp, res, fb, llm_outcome) ==
    LET enriched == IF res.enriched_results = None THEN <<>> ELSE res.enriched_results.entries
    IN  IF qp.intent = "aggregation" THEN Answer(_synthesize_aggregation(qp, res), FALSE)
        ELSE IF enriched = <<>> /\ res.tool_results = <<>>
        THEN Answer(_no_data_response(qp), FALSE)
        ELSE IF use_llm THEN _synthesize_with_llm(qp, enriched, res, generate(llm_outcome))
        ELSE Answer(_synthesize_rule_based(qp, enriched), FALSE)

\* ------------------------------------------------------------------------
\* PlacementAgent
\* ------------------------------------------------------------------------

\* PlacementAgent.max_retries
max_retries == 2

\* the retry loop without its bound on the number of retries
ShouldRetry_Unbounded(fb, n) == fb.needs_retry

\* the retry loop deaf to the critic: it retries while retries are left
ShouldRetry_Always(fb, n) == n < max_retries

\* the condition of the retry loop of query
ShouldRetry(fb, n) == fb.needs_retry /\ n < max_retries

RetryCall(tool, qp) ==
    [tool |-> tool,
     params |-> [query |-> qp.original_query, companies |-> qp.companies_mentioned,
                 top_k |-> 10]]

\* _adjust_plan whose default branch clears the tools and forgets to add the hybrid search
_adjust_plan_NoDefault(qp, fb) ==
    IF fb.retry_suggestions # <<>>
    THEN [qp EXCEPT !.tools_to_use =
                        <<RetryCall(Get(fb.retry_suggestions[1], "tool", "hybrid_search"), qp)>>]
    ELSE [qp EXCEPT !.tools_to_use = <<>>, !.fallback_to_hybrid = TRUE]

\* _adjust_plan that adds the retry call to the calls already selected
_adjust_plan_Append(qp, fb) ==
    IF fb.retry_suggestions # <<>>
    THEN [qp EXCEPT !.tools_to_use =
                        Append(@, RetryCall(Get(fb.retry_suggestions[1], "tool", "hybrid_search"), qp))]
    ELSE [qp EXCEPT !.tools_to_use = Append(@, RetryCall("hybrid_search", qp)),
                    !.fallback_to_hybrid = TRUE]

\* _adjust_plan that also marks the plan as a hybrid one that needs enrichment
_adjust_plan_Reclassify(qp, fb) ==
    [qp EXCEPT !.tools_to_use =
                   <<RetryCall(IF fb.retry_suggestions # <<>>
                               THEN Get(fb.retry_suggestions[1], "tool", "hybrid_search")
                               ELSE "hybrid_search", qp)>>,
               !.fallback_to_hybrid = IF fb.retry_suggestions # <<>> THEN @ ELSE TRUE,
               !.intent = "hybrid",
               !.needs_enrichment = TRUE]

_adjust_plan(qp, fb) ==
    IF fb.retry_suggestions # <<>>
    THEN [qp EXCEPT !.tools_to_use =
                        <<RetryCall(Get(fb.retry_suggestions[1], "tool", "hybrid_search"), qp)>>]
    ELSE [qp EXCEPT !.tools_to_use = <<RetryCall("hybrid_search", qp)>>,
                    !.fallback_to_hybrid = TRUE]

\* create_agent: the known companies are read from the facts store
KnownCompanies(store) == { Lower(store.facts[i].company_name) : i \in DOMAIN store.facts }

\* ------------------------------------------------------------------------
\* Inputs
\* ------------------------------------------------------------------------

Q_ListStipend == <<"L", "i", "s", "t", " ", "a", "l", "l", " ", "c", "o", "m", "p", "a", "n", "i", "e", "s", " ", "w", "i", "t", "h", " ", "s", "t", "i", "p", "e", "n", "d", " ", "m", "o", "r", "e", " ", "t", "h", "a", "n", " ", "4", "0", "0", "0", "0">>

Q_Compare == <<"C", "o", "m", "p", "a", "r", "e", " ", "D", "e", "l", "l", " ", "a", "n", "d", " ", "I", "n", "t", "e", "l">>

Q_HowManyBangalore == <<"H", "o", "w", " ", "m", "a", "n", "y", " ", "c", "o", "m", "p", "a", "n", "i", "e", "s", " ", "i", "n", " ", "B", "a", "n", "g", "a", "l", "o", "r", "e">>

Q_DellInterview == <<"D", "e", "l", "l", " ", "i", "n", "t", "e", "r", "v", "i", "e", "w", " ", "p", "r", "o", "c", "e", "s", "s">>

Q_Skills == <<"W", "h", "a", "t", " ", "s", "k", "i", "l", "l", "s", " ", "a", "r", "e", " ", "n", "e", "e", "d", "e", "d">>

Q_ListDellIntel == <<"L", "i", "s", "t", " ", "a", "l", "l", " ", "D", "e", "l", "l", " ", "a", "n", "d", " ", "I", "n", "t", "e", "l", " ", "r", "o", "l", "e", "s">>

Q_WhichVs == <<"W", "h", "i", "c", "h", " ", "c", "o", "m", "p", "a", "n", "i", "e", "s", " ", "p", "a", "y", " ", "m", "o", "r", "e", " ", "D", "e", "l", "l", " ", "v", "s", " ", "I", "n", "t", "e", "l">>

Q_StipendAbove == <<"W", "h", "i", "c", "h", " ", "c", "o", "m", "p", "a", "n", "i", "e", "s", " ", "h", "a", "v", "e", " ", "s", "t", "i", "p", "e", "n", "d", " ", "a", "b", "o", "v", "e", " ", "5", "0", "0", "0", "0">>

Queries == {Q_ListStipend, Q_Compare, Q_HowManyBangalore, Q_DellInterview, Q_Skills,
            Q_ListDellIntel, Q_WhichVs, Q_StipendAbove, <<>>}

\* what the planning LLM may answer for query q, as parsed JSON
PlannerJson(q) == {
    JDict([intent |-> "aggregation", is_aggregation |-> TRUE,
           tool |-> [name |-> "facts_lookup", action |-> "filter_by_stipend",
                     params |-> [min_value |-> 60000]]]),
    JDict([intent |-> "aggregation",
           tool |-> [name |-> "facts_lookup", action |-> "get_all_companies",
                     params |-> EmptyDict]]),
    JDict([intent |-> "company_detail", companies |-> <<S_Dell>>]),
    JDict([intent |-> "comparison", is_comparison |-> TRUE, companies |-> <<S_Dell, S_Intel>>,
           tool |-> [name |-> "compare_companies",
                     params |-> [companies |-> <<S_Dell, S_Intel>>]]]),
    JDict([intent |-> "general", tool |-> [name |-> "semantic_search"]]),
    JDict([intent |-> "general",
           tool |-> [name |-> "semantic_search",
                     params |-> [query |-> q, search_type |-> "interview_process"]]]),
    JDict([intent |-> "general", tool |-> [name |-> "web_search", params |-> EmptyDict]]),
    JDict([intent |-> "general", tool |-> None]),
    JDict([intent |-> "company_detail", companies |-> <<S_dell>>,
           tool |-> [name |-> "facts_lookup", action |-> "get_company_details",
                     params |-> [company |-> S_dell]]]),
    JDict([intent |-> "company_detail", companies |-> <<S_Amazon, S_Intel>>,
           tool |-> [name |-> "facts_lookup", action |-> "get_company_details",
                     params |-> [company |-> S_Amazon]]]),
    JDict([is_aggregation |-> TRUE, tool |-> [name |-> "facts_lookup", params |-> None]]),
    JDict(EmptyDict),
    JList(<<1>>) }

PlannerOutcomes(q) ==
    { BackendText(PlainJson(j)) : j \in PlannerJson(q) }
    \cup { BackendError, BackendText(EmptyText), BackendText(Prose), BackendText(BrokenFence),
           BackendText(FencedJson(JDict([intent |-> "company_detail", companies |-> <<S_Intel>>]))),
           BackendText(EmbeddedJson(JDict([intent |-> "general", is_aggregation |-> TRUE]))) }

\* what the critic's LLM may answer; confidence in hundredths
CriticJson == {
    JDict([is_complete |-> TRUE, is_relevant |-> TRUE, confidence |-> 90, needs_retry |-> FALSE]),
    JDict([confidence |-> 35, needs_retry |-> TRUE]),
    JDict([confidence |-> 45, needs_retry |-> FALSE]),
    JDict([confidence |-> 90, needs_retry |-> TRUE]),
    JDict([is_relevant |-> TRUE, confidence |-> 35]),
    JDict(EmptyDict),
    JList(<<1>>) }

CriticOutcomes ==
    { BackendText(PlainJson(j)) : j \in CriticJson }
    \cup { BackendError, BackendText(Prose),
           BackendText(FencedJson(JDict([confidence |-> 30, needs_retry |-> TRUE]))) }

\* what the synthesizer's LLM may answer: texts of these lengths
SynthOutcomes == { BackendError } \cup { BackendText(Words(n)) : n \in {0, 30, 50, 51, 400} }

\* ------------------------------------------------------------------------
\* PlacementAgent.query, step by step
\* ------------------------------------------------------------------------

NoCalls == [analyze |-> 0, execute |-> 0, evaluate |-> 0, synthesize |-> 0, generate |-> 0]

Init ==
    /\ \E st \in Stores :
          /\ factsStore = st[1]
          /\ semanticStore = st[2]
          /\ known = KnownCompanies(st[1])
    /\ hashOrder \in HashOrders
    /\ use_llm \in BOOLEAN
    /\ pc = "idle"
    /\ user_query = <<>>
    /\ planner_reply = None
    /\ plan = None
    /\ result = None
    /\ feedback = None
    /\ retries = 0
    /\ answer = None
    /\ calls = NoCalls

\* the value a call leaves in a local of query: what it returned, or None when it
\* raised and the local was never bound
Returned(value, unbound) == IF value = Raised THEN unbound ELSE value

\* query takes the answer; calls counts the text generations asked of the LLM
Respond(a) ==
    /\ answer' = a.text
    /\ calls' = [calls EXCEPT !.synthesize = @ + 1,
                              !.generate = @ + (IF a.generated THEN 1 ELSE 0)]

Env == <<factsStore, semanticStore, hashOrder, use_llm, known>>

\* Step 1: plan = self.planner.analyze(user_query)
Plan ==
    /\ pc = "idle"
    /\ \E q \in Queries : \E o \in PlannerOutcomes(q) :
          /\ user_query' = q
          /\ planner_reply' = IF use_llm THEN o ELSE None
          /\ plan' = Returned(analyze(q, o), None)
          /\ pc' = IF plan' = None THEN "raised" ELSE "planned"
    /\ calls' = [calls EXCEPT !.analyze = @ + 1]
    /\ UNCHANGED <<Env, result, feedback, retries, answer>>

\* Step 2, and the second statement of the loop body: result = self.executor.execute(plan)
Execute ==
    /\ pc \in {"planned", "adjusted"}
    /\ result' = Returned(execute(plan), None)
    /\ pc' = IF result' = None THEN "raised" ELSE "executed"
    /\ calls' = [calls EXCEPT !.execute = @ + 1]
    /\ UNCHANGED <<Env, user_query, planner_reply, plan, feedback, retries, answer>>

\* Step 3, and the last statement of the loop body: feedback = self.critic.evaluate(plan, result)
Critique ==
    /\ pc = "executed"
    /\ \E o \in CriticOutcomes :
          /\ feedback' = Returned(evaluate(plan, result, o), None)
          /\ pc' = IF feedback' = None THEN "raised" ELSE "critiqued"
    /\ calls' = [calls EXCEPT !.evaluate = @ + 1]
    /\ UNCHANGED <<Env, user_query, planner_reply, plan, result, retries, answer>>

\* Step 4, the loop test holds: retries += 1; plan = self._adjust_plan(plan, feedback)
Retry ==
    /\ pc = "critiqued"
    /\ ShouldRetry(feedback, retries)
    /\ retries' = retries + 1
    /\ plan' = _adjust_plan(plan, feedback)
    /\ pc' = "adjusted"
    /\ UNCHANGED <<Env, user_query, planner_reply, result, feedback, answer, calls>>

\* Step 5, the loop test fails: answer = self.synthesizer.synthesize(...); return
Synthesize ==
    /\ pc = "critiqued"
    /\ ~ShouldRetry(feedback, retries)
    /\ \E o \in SynthOutcomes : Respond(synthesize(plan, result, feedback, o))
    /\ pc' = "done"
    /\ UNCHANGED <<Env, user_query, planner_reply, plan, result, feedback, retries>>

Next == Plan \/ Execute \/ Critique \/ Retry \/ Synthesize

Spec == Init /\ [][Next]_vars

\* ------------------------------------------------------------------------
\* Executor.execute on plans of several tool calls
\* ------------------------------------------------------------------------

\* the longest tools_to_use explored
MaxTools == 3

\* tool calls that give a result, fail, raise, and name no known tool
ToolCalls == {
    [tool |-> "facts_lookup", action |-> "get_all_companies", params |-> EmptyDict],
    [tool |-> "facts_lookup", action |-> "get_company_details", params |-> None],
    [tool |-> "semantic_search", params |-> [query |-> S_dell]],
    [tool |-> "semantic_search", params |-> EmptyDict],
    [tool |-> "compare_companies", params |-> [companies |-> <<S_Dell>>]],
    [tool |-> "hybrid_search", params |-> [query |-> S_intel]],
    [tool |-> "web_search", params |-> EmptyDict] }

ToolLists == UNION { [1..n -> ToolCalls] : n \in 0..MaxTools }

\* the plans handed to execute: one that is enriched, one that is not
ExecPlans ==
    { QueryPlan(S_dell, "company_detail", tools, FALSE, <<S_dell>>, <<>>, TRUE, "") :
        tools \in ToolLists }
    \cup { QueryPlan(<<>>, "aggregation", tools, FALSE, <<>>, <<>>, FALSE, "") :
             tools \in ToolLists }

\* a caller builds a plan for the executor
Submit ==
    /\ pc = "idle"
    /\ plan' \in ExecPlans
    /\ pc' = "planned"
    /\ UNCHANGED <<Env, user_query, planner_reply, result, feedback, retries, answer, calls>>

InitExec == Init /\ ~use_llm

NextExec == Submit \/ Execute

SpecExec == InitExec /\ [][NextExec]_vars

\* ------------------------------------------------------------------------
\* Properties of PlacementAgent.query
\* ------------------------------------------------------------------------

\* C1: whatever the critic says, query runs at most max_retries + 1 = 3 execute/critique
\* cycles and the retries it reports never exceed 2; the third critique finds the
\* retries used up, and query synthesizes once before it returns.
C1_BoundedCycles ==
    /\ retries <= max_retries
    /\ calls.execute <= max_retries + 1
    /\ calls.evaluate <= max_retries + 1
    /\ calls.execute <= retries + 1
    /\ (pc = "critiqued" /\ calls.evaluate = max_retries + 1 => retries = max_retries)
    /\ (pc = "done" => calls.synthesize = 1)

\* C1 witness: the critic asked for a retry at every evaluation, and query returned
\* after three cycles with retries = 2
C1_Witness ==
    pc = "done" /\ retries = 2 /\ calls.execute = 3 /\ calls.evaluate = 3 /\ feedback.needs_retry

\* C2: after a critique, the retry is taken only if feedback.needs_retry holds and fewer
\* than 2 retries were made, and in every other case the step is the synthesis; a
\* response with retries < 2 carries a feedback whose needs_retry is false.
C2_RetryOnlyWhenAsked ==
    [][/\ (pc = "critiqued" /\ pc' = "adjusted" => feedback.needs_retry /\ retries < 2)
       /\ (pc = "critiqued" /\ ~(feedback.needs_retry /\ retries < 2) => pc' = "done")
       /\ (pc = "critiqued" /\ feedback.needs_retry /\ retries < 2 => pc' = "adjusted")
       /\ (pc' = "done" /\ retries' < 2 => ~feedback'.needs_retry)]_vars

\* C2 witness: one retry was taken, the second critique did not ask for another, and
\* query returned with retries = 1
C2_Witness ==
    pc = "done" /\ retries = 1 /\ calls.evaluate = 2 /\ ~feedback.needs_retry

\* C3: query never raises to its caller
C3_QueryNeverRaises == pc # "raised"

\* C4: every feedback Critic.evaluate returns has needs_retry true exactly when its
\* confidence is below 0.4
C4_RetryIffLowConfidence ==
    feedback # None => (feedback.needs_retry <=> feedback.confidence_score < 40)

\* C5: the plan has a non-empty tools_to_use when analyze returns it, on every planner
\* path, and after every retry adjustment, so execute never receives an empty plan
C5_ToolsNonEmpty ==
    /\ plan # None => plan.tools_to_use # <<>>
    /\ (pc \in {"planned", "adjusted"} => plan # None)

\* C5 witness: a plan from a usable LLM response went through a retry adjustment
C5_Witness ==
    /\ pc = "adjusted" /\ use_llm /\ retries = 2
    /\ JsonTruthy(generate_json(planner_reply))
    /\ Len(plan.tools_to_use) = 1

\* C6: every plan analyze returns has needs_enrichment false when its intent is
\* aggregation and true for every other intent
C6_EnrichmentIffNotAggregation ==
    plan # None => (plan.needs_enrichment <=> plan.intent # "aggregation")

\* C7: when the intent is aggregation the answer is what the aggregation formatter
\* renders from the tool results, and the synthesizer asks the LLM for no text, also
\* after retries
C7_AggregationIsDeterministic ==
    pc = "done" /\ plan.intent = "aggregation" =>
        /\ calls.generate = 0
        /\ answer.kind # "llm"
        /\ answer = _synthesize_aggregation(plan, result)

\* C7 witness: an aggregation plan, LLM enabled, synthesized from tool results after
\* two retries
C7_Witness ==
    /\ pc = "done" /\ plan.intent = "aggregation" /\ use_llm /\ retries = 2
    /\ result.tool_results # <<>>
    /\ answer.kind = "lines"

\* the planner's LLM call gave no usable JSON: a generation error, an empty text, or a
\* text in which none of the parsing strategies finds JSON
Unusable(reply) ==
    \/ reply.error
    \/ reply.text.empty
    \/ \A m \in {reply.text.direct, reply.text.fenced_json, reply.text.fenced, reply.text.braces} :
           m \in {NoMatch, Invalid}

\* C9: when the planning LLM call yields no usable JSON, analyze does not raise and
\* returns the rule-based plan for the same query and detected companies, with a
\* non-empty tools_to_use
C9_FallbackToRuleBased ==
    use_llm /\ planner_reply # None /\ Unusable(planner_reply) =>
        /\ ~(pc = "raised" /\ calls.execute = 0)
        /\ (pc = "planned" =>
               /\ plan = _analyze_rule_based(user_query, _extract_companies_fuzzy(user_query))
               /\ plan.tools_to_use # <<>>)

\* C9 witness: the LLM answered with prose to a query the rules plan as an aggregation
C9_Witness ==
    /\ pc = "planned" /\ use_llm
    /\ planner_reply = BackendText(Prose)
    /\ user_query = Q_ListStipend
    /\ plan.intent = "aggregation"

\* a tool result that succeeded and holds an empty result set
EmptyResultSet(r) ==
    /\ r.success
    /\ r.data # None
    /\ Get(r.data, "results", <<>>) = <<>>
    /\ Get(r.data, "companies", <<>>) = <<>>
    /\ Get(r.data, "roles", <<>>) = <<>>
    /\ Get(Get(r.data, "semantic_results", EmptyDict), "results", <<>>) = <<>>
    /\ DOMAIN Get(r.data, "facts_data", EmptyDict) = {}

\* every tool call succeeded with an empty result set and enrichment gathered nothing
NothingFound(res) ==
    /\ res.errors = <<>>
    /\ res.tool_results # <<>>
    /\ \A i \in DOMAIN res.tool_results : EmptyResultSet(res.tool_results[i])
    /\ (res.enriched_results = None
        \/ \A i \in DOMAIN res.enriched_results.entries :
              /\ res.enriched_results.entries[i].facts = <<>>
              /\ DOMAIN res.enriched_results.entries[i].semantic = {})

\* C10: when every tool call succeeds with an empty result set and enrichment gathers
\* nothing, the answer is the fixed no-information message, for every intent and with
\* the LLM on or off
C10_NoDataMessage ==
    pc = "done" /\ NothingFound(result) => answer.kind = "no_data"

\* ------------------------------------------------------------------------
\* Properties of Executor.execute
\* ------------------------------------------------------------------------

\* what each entry of tools_to_use gives when dispatched on its own
Outcomes(qp) == [i \in DOMAIN qp.tools_to_use |-> Dispatch(qp.tools_to_use[i], qp)]

\* the entry raised or named no known tool
Skipped(o) == o = Raised \/ o = Unknown

\* res holds, in order, the result of every entry that gave one and one error for every
\* other entry
Processed(qp, res, outcomes) ==
    /\ res.tool_results =
           SelectIdx(outcomes, [i \in DOMAIN outcomes |-> ~Skipped(outcomes[i])], 1)
    /\ [i \in DOMAIN res.errors |-> res.errors[i].tool] =
           SelectIdx([i \in DOMAIN outcomes |-> Get(qp.tools_to_use[i], "tool", "None")],
                     [i \in DOMAIN outcomes |-> Skipped(outcomes[i])], 1)
    /\ \A i \in DOMAIN res.tool_results : res.tool_results[i] \notin {Raised, Unknown}
    /\ Len(res.tool_results) + Len(res.errors) = Len(qp.tools_to_use)

\* C8: execute processes every entry of tools_to_use in order: an entry that raises or
\* names no known tool adds exactly one error and no ToolResult, every later entry is
\* still dispatched, and len(tool_results) + len(errors) = len(tools_to_use)
C8_EveryEntryProcessed ==
    pc = "executed" => Processed(plan, result, Outcomes(plan))

\* C8 witness: of three entries the first raised, the second named no known tool, and
\* the third was still dispatched and gave the only ToolResult
C8_Witness ==
    /\ pc = "executed"
    /\ Len(plan.tools_to_use) = 3
    /\ Len(result.errors) = 2
    /\ result.errors[1].error = "Error"
    /\ result.errors[2].error = "Unknown tool"
    /\ result.tool_results = <<Dispatch(plan.tools_to_use[3], plan)>>

\* ------------------------------------------------------------------------
\* Aggregation answers over stores of many companies
\* ------------------------------------------------------------------------

\* the largest number of roles in the store; above both display caps
MaxItems == 27

\* the name of the i-th company: "C01", "C02", ...
ItemName(i) == <<"C", DigitChars[(i \div 10) + 1], DigitChars[(i % 10) + 1]>>

\* a facts file of k roles, one per company, each in Bangalore at 45000
BigFacts(k) ==
    [i \in 1..k |-> Fact(ItemName(i), "Intern", DictStipend(45000), <<S_Bangalore>>, ItemName(i))]

\* an iteration order of the names and of their lower-case forms
BigOrder ==
    [i \in 1..MaxItems |-> ItemName(MaxItems + 1 - i)]
    \o [i \in 1..MaxItems |-> Lower(ItemName(i))]

\* the agent without LLM, built on a facts file of 0..MaxItems roles
InitAgg ==
    /\ \E k \in 0..MaxItems : factsStore = [status |-> "ok", facts |-> BigFacts(k)]
    /\ semanticStore = [status |-> "missing", metadata |-> <<>>]
    /\ known = KnownCompanies(factsStore)
    /\ hashOrder = BigOrder
    /\ use_llm = FALSE
    /\ pc = "idle"
    /\ user_query = <<>>
    /\ planner_reply = None
    /\ plan = None
    /\ result = None
    /\ feedback = None
    /\ retries = 0
    /\ answer = None
    /\ calls = NoCalls

SpecAgg == InitAgg /\ [][Next]_vars

\* the list an aggregation answer enumerates, and its display cap
Listed(data) == IF "companies" \in DOMAIN data THEN data.companies ELSE data.results

CapOf(data) == IF "companies" \in DOMAIN data THEN CompaniesCap ELSE ResultsCap

\* parts reports k in its header, enumerates min(k, cap) items, and ends with the line
\* "and k - cap more" exactly when k exceeds cap
Reports(parts, k, cap) ==
    /\ parts[1].count = k
    /\ Cardinality({ i \in DOMAIN parts : parts[i].line \in {"company", "result"} })
           = (IF k < cap THEN k ELSE cap)
    /\ (k > cap => parts[Len(parts)].line = "more" /\ parts[Len(parts)].n = k - cap)
    /\ (k <= cap => \A i \in DOMAIN parts : parts[i].line # "more")

\* C11: the answer to an aggregation plan whose tool result holds K items reports K in
\* its header, enumerates min(K, cap) items with cap 25 for companies and 20 for
\* results, and has the line "and K - cap more" whenever K exceeds the cap
C11_CountAndCap ==
    /\ pc = "done" /\ plan.intent = "aggregation"
    /\ Len(result.tool_results) = 1 /\ HasData(result.tool_results[1])
    /\ DOMAIN result.tool_results[1].data \cap {"companies", "results"} # {}
    => /\ answer.kind = "lines"
       /\ Reports(answer.parts, Len(Listed(result.tool_results[1].data)),
                  CapOf(result.tool_results[1].data))

\* ------------------------------------------------------------------------
\* Properties of the tool results
\* ------------------------------------------------------------------------

\* r is not a failure that carries data
NoDataOnFailure(r) == r = Raised \/ r = Unknown \/ r.success \/ r.data = None

\* keyword arguments the tools are called with
FactsKw == { EmptyDict, [company |-> S_dell], [company |-> <<"x">>], [company |-> <<>>],
             [min_value |-> 40000], [min_value |-> 60000], [location |-> S_Pune],
             [location |-> S_Chennai], [location |-> <<>>] }

SemanticKw == { EmptyDict, [query |-> <<>>], [query |-> S_dell],
                [query |-> S_dell, search_type |-> "about_company", company |-> S_dell] }

CompareKw == { EmptyDict, [companies |-> <<>>], [companies |-> <<S_Dell>>],
               [companies |-> <<S_Dell, S_Intel>>],
               [companies |-> <<S_Dell, S_Intel>>, comparison_type |-> "detailed"] }

\* data a failed result would carry if a tool filled it in
StrayData ==
    [results |-> <<[company |-> S_Amazon, role |-> "Stray", stipend |-> DictStipend(1),
                    location |-> <<S_Noida>>]>>,
     roles |-> <<[company |-> S_Amazon, role |-> "Stray", stipend |-> DictStipend(1),
                  location |-> <<S_Noida>>]>>,
     companies |-> <<S_Amazon>>, count |-> 1]

\* res with StrayData in every failed tool result
WithStrayData(res) ==
    [res EXCEPT !.tool_results =
        [i \in DOMAIN res.tool_results |->
            IF res.tool_results[i].success THEN res.tool_results[i]
            ELSE [res.tool_results[i] EXCEPT !.data = StrayData]]]

SomeToolSucceeded(qp, outcomes) ==
    \E i \in DOMAIN outcomes : ~Skipped(outcomes[i]) /\ outcomes[i].success

\* C13: the success of the ExecutionResult is true exactly when at least one ToolResult
\* in tool_results has success true, whatever errors were recorded and whether or not
\* enrichment ran or found anything
C13_SuccessIffSomeToolSucceeded ==
    pc = "executed" =>
        /\ result.success <=> \E i \in DOMAIN result.tool_results : result.tool_results[i].success
        /\ result.success <=> SomeToolSucceeded(plan, Outcomes(plan))

\* C13 witness: every tool call failed while enrichment found the company's roles, and
\* the result is not a success
C13_Witness ==
    /\ pc = "executed"
    /\ ~result.success
    /\ result.tool_results # <<>>
    /\ result.enriched_results # None
    /\ \E i \in DOMAIN result.enriched_results.entries :
          result.enriched_results.entries[i].facts # <<>>

\* C13 witness of the other direction: errors were recorded and one tool succeeded
C13_WitnessErrors ==
    pc = "executed" /\ result.success /\ result.errors # <<>>

\* ------------------------------------------------------------------------
\* Properties of the retry adjustment
\* ------------------------------------------------------------------------

\* the tool the critic's first retry suggestion names, hybrid_search when there is no
\* suggestion or it names no tool
SuggestedTool(fb) ==
    IF fb.retry_suggestions # <<>> /\ "tool" \in DOMAIN fb.retry_suggestions[1]
    THEN fb.retry_suggestions[1].tool ELSE "hybrid_search"

\* C14: after a retry adjustment tools_to_use is exactly one call, to the tool of the
\* critic's first retry suggestion or to hybrid_search by default, with the params
\* {query: original_query, companies: companies_mentioned, top_k: 10}; none of the
\* calls selected before remains, and nothing else of the plan changes
C14_RetryPlanIsOneCall ==
    [][pc = "critiqued" /\ pc' = "adjusted" =>
          /\ plan'.tools_to_use =
                 <<[tool |-> SuggestedTool(feedback),
                    params |-> [query |-> plan.original_query,
                                companies |-> plan.companies_mentioned, top_k |-> 10]]>>
          /\ plan'.original_query = plan.original_query
          /\ plan'.companies_mentioned = plan.companies_mentioned
          /\ plan'.intent = plan.intent]_vars

\* C14 witness: a plan of one facts_lookup call was adjusted, and now holds the single
\* hybrid_search call with top_k 10
C14_Witness ==
    /\ pc = "adjusted" /\ retries = 1
    /\ _analyze_rule_based(user_query, _extract_companies_fuzzy(user_query)).tools_to_use[1].tool
          = "facts_lookup"
    /\ ~use_llm
    /\ Len(plan.tools_to_use) = 1
    /\ plan.tools_to_use[1].tool = "hybrid_search"
    /\ plan.tools_to_use[1].params.top_k = 10

\* ------------------------------------------------------------------------
\* Properties of the rule-based analysis
\* ------------------------------------------------------------------------

\* the plan in hand was made by the rules: the LLM is off, or gave no usable JSON
PlannedByRules == pc = "planned" /\ (~use_llm \/ Unusable(planner_reply))

\* query_lower contains an aggregation trigger phrase
HasTrigger(query_lower) ==
    \E ph \in AggregationPhrases \cup FilterPhrases : Contains(query_lower, ph)

HasComparisonKeyword(query_lower) ==
    \E kw \in ComparisonKeywords : Contains(query_lower, kw)

\* qp follows the priority aggregation, comparison, hybrid for a query whose lower-case
\* form is query_lower and in which the companies detected were found
FollowsPriority(qp, query_lower, detected) ==
    /\ Len(qp.tools_to_use) = 1
    /\ Range(qp.companies_mentioned) = detected
    /\ IF HasTrigger(query_lower)
       THEN /\ qp.intent = "aggregation"
            /\ ~qp.needs_enrichment
            /\ qp.tools_to_use[1].tool = "facts_lookup"
       ELSE IF Cardinality(detected) >= 2 \/ HasComparisonKeyword(query_lower)
       THEN /\ qp.intent = "comparison"
            /\ qp.needs_enrichment
            /\ qp.tools_to_use[1].tool = "compare_companies"
            /\ Range(qp.tools_to_use[1].params.companies) = detected
       ELSE /\ qp.intent = "hybrid"
            /\ qp.needs_enrichment
            /\ qp.tools_to_use[1].tool = "hybrid_search"

\* C15: the rules decide the intent by a fixed priority: an aggregation trigger phrase
\* gives aggregation without enrichment even when two companies or a comparison keyword
\* are present; otherwise two or more detected companies or a comparison keyword give a
\* comparison with the single tool compare_companies over the detected companies;
\* otherwise the plan is a single hybrid_search. "Compare Dell and Intel" gives a
\* comparison of {dell, intel}
C15_RulePriority ==
    PlannedByRules =>
        /\ FollowsPriority(plan, Lower(user_query), Range(_extract_companies_fuzzy(user_query)))
        /\ (user_query = Q_Compare /\ {S_dell, S_intel} \subseteq known =>
               /\ plan.intent = "comparison"
               /\ Range(plan.companies_mentioned) = {S_dell, S_intel}
               /\ plan.tools_to_use[1].tool = "compare_companies")

\* C15 witness: a query with the trigger "which companies", the keyword "vs" and two
\* known companies was planned as an aggregation
C15_Witness ==
    /\ PlannedByRules
    /\ user_query = Q_WhichVs
    /\ Range(plan.companies_mentioned) = {S_dell, S_intel}
    /\ plan.intent = "aggregation"

\* ------------------------------------------------------------------------
\* Properties of the stipend filter
\* ------------------------------------------------------------------------

\* an aggregation query with 'stipend', a number and a comparator word
IsStipendQuery(query_lower) ==
    /\ HasTrigger(query_lower)
    /\ Contains(query_lower, K_stipend)
    /\ HasNumber(query_lower)
    /\ \E kw \in ComparatorWords : Contains(query_lower, kw)

\* the role records of fs whose stipend amount is at least n
AtLeast(fs, n) ==
    SelectIdx(fs, [i \in DOMAIN fs |-> /\ fs[i].stipend_salary.amount # NoneNum
                                       /\ fs[i].stipend_salary.amount >= n], 1)

\* the plan is the single call filter_by_stipend with min_value n
IsStipendPlan(qp, n) ==
    /\ qp.intent = "aggregation"
    /\ Len(qp.tools_to_use) = 1
    /\ qp.tools_to_use[1].tool = "facts_lookup"
    /\ qp.tools_to_use[1].action = "filter_by_stipend"
    /\ qp.tools_to_use[1].params.min_value = n

\* res holds exactly the records of the store with a stipend of at least n; when the
\* facts cannot be loaded, or the store is empty, it holds no record at all
HoldsExactly(res, n) ==
    IF FactsLoad = "loaded" /\ IndexedFacts # <<>>
    THEN res.tool_results =
            <<ToolResult(TRUE, [results |-> FormatStipend(AtLeast(IndexedFacts, n)),
                                count |-> Len(AtLeast(IndexedFacts, n))], "facts_lookup")>>
    ELSE \A i \in DOMAIN res.tool_results : ~HasData(res.tool_results[i])

InBothStores(company_lower) ==
    /\ \E i \in DOMAIN IndexedFacts : Lower(IndexedFacts[i].company_name) = company_lower
    /\ \E i \in DOMAIN Metadata :
          /\ Lower(Metadata[i].company) = company_lower
          /\ Metadata[i].type \in Range(EnrichCategories)

\* entries holds an entry for the company with roles and a populated category
FullyEnriched(entries, company_lower) ==
    \E i \in DOMAIN entries :
        /\ entries[i].company = Title(company_lower)
        /\ entries[i].facts # <<>>
        /\ DOMAIN entries[i].semantic # {}

\* C17: every company collected for enrichment that has a role in the facts store and
\* a chunk of one of the four categories in the semantic store gets an entry, keyed by
\* its title-cased name, with a non-empty facts list and at least one populated
\* semantic category
C17_EnrichmentRoundTrip ==
    pc = "executed" /\ result.enriched_results # None =>
        \A c \in Range(CompaniesToEnrich(result.tool_results, plan)) :
            InBothStores(c) => FullyEnriched(result.enriched_results.entries, c)

\* ------------------------------------------------------------------------
\* Properties of companies_mentioned
\* ------------------------------------------------------------------------

\* no two entries of names are equal when letter case is ignored
DistinctIgnoringCase(names) ==
    \A i, j \in DOMAIN names : i # j => Lower(names[i]) # Lower(names[j])

\* C18: in every plan analyze returns, companies_mentioned is a set under
\* case-insensitive identity: a company named by the LLM response and by the extractor
\* appears only once
C18_CompaniesDistinct ==
    plan # None => DistinctIgnoringCase(plan.companies_mentioned)

\* ------------------------------------------------------------------------
\* Properties of the order of calls in query
\* ------------------------------------------------------------------------

\* the call of query is over: it returned its response, or an exception left it
Ended == pc \in {"done", "raised"}

\* as many executions as evaluations, one more than the retries
CyclesMatch == calls.execute = retries + 1 /\ calls.evaluate = retries + 1

\* fb is what the critic says of this plan and result
EvaluatedFrom(fb, qp, res) ==
    \E o \in CriticOutcomes : fb = evaluate(qp, res, o)

\* a is what the synthesizer renders from this plan, result and feedback
SynthesizedFrom(a, qp, res, fb) ==
    \E o \in SynthOutcomes : a = synthesize(qp, res, fb, o).text

\* C19: in one call of query, analyze runs exactly once and before any execution; each
\* execute is followed by exactly one evaluate of that plan and result before another
\* execute or the synthesis; synthesize runs exactly once, last, on the plan, result
\* and feedback of the final cycle, which are the ones in the response; and when the
\* call is over, executions = evaluations = retries + 1
C19_CallOrder ==
    /\ (pc = "idle" => calls = NoCalls)
    /\ (pc # "idle" => calls.analyze = 1)
    /\ calls.evaluate <= calls.execute
    /\ calls.execute <= calls.evaluate + 1
    /\ (pc \in {"planned", "adjusted"} => calls.execute = calls.evaluate)
    /\ (pc = "executed" => calls.execute = calls.evaluate + 1)
    /\ (pc = "critiqued" => CyclesMatch /\ EvaluatedFrom(feedback, plan, result))
    /\ (calls.synthesize > 0 => pc = "done")
    /\ (Ended => calls.synthesize = 1 /\ CyclesMatch)
    /\ (pc = "done" =>
           /\ EvaluatedFrom(feedback, plan, result)
           /\ SynthesizedFrom(answer, plan, result, feedback))

\* ------------------------------------------------------------------------
\* Properties of the enrichment step of execute
\* ------------------------------------------------------------------------

\* result is what execute returned for the plan as it stands
ResultOfPlan == pc \in {"executed", "critiqued", "done"}

\* res carries the enrichment of all its tool results when due is true, and none otherwise
EnrichedWhenDue(res, qp, due) ==
    IF due
    THEN res.enriched_results # None
         /\ res.enriched_results = _enrich_comprehensive(res.tool_results, qp)
         /\ res.tool_results = RunTools(qp.tools_to_use, qp, <<>>, <<>>).tool_results
    ELSE res.enriched_results = None

\* C20: execute enriches only after all tool calls of the plan were dispatched, from
\* their results, and only when plan.needs_enrichment is true and the intent is not
\* aggregation; in every other case enriched_results is None, also for an aggregation
\* plan with needs_enrichment true and for its re-executions after a retry
C20_EnrichmentOnlyWhenDue ==
    ResultOfPlan =>
        EnrichedWhenDue(result, plan, plan.needs_enrichment /\ plan.intent # "aggregation")

\* C20 witness: an aggregation plan with needs_enrichment true, executed again after a
\* retry with tool results, and not enriched
C20_Witness ==
    /\ pc = "executed" /\ retries >= 1
    /\ plan.intent = "aggregation" /\ plan.needs_enrichment
    /\ result.tool_results # <<>>
    /\ result.enriched_results = None

\* ------------------------------------------------------------------------
\* Properties of the hybrid dispatch
\* ------------------------------------------------------------------------

\* result holds the outcome of a plan of one hybrid_search call that did not raise
HybridRan ==
    /\ ResultOfPlan
    /\ Len(plan.tools_to_use) = 1
    /\ plan.tools_to_use[1].tool = "hybrid_search"
    /\ result.tool_results # <<>>

\* the companies explicitly requested of a hybrid_search call
Requested(tool_call, qp) == Range(Get(tool_call.params, "companies", qp.companies_mentioned))

\* the one semantic search the claim describes: general, top_k 3
ThreeHits(tool_call, qp) ==
    SemanticExecute([query |-> Get(tool_call.params, "query", qp.original_query),
                     search_type |-> "general", top_k |-> 3])

\* the companies of the hits of a semantic result
HitNames(sem) ==
    IF sem.success /\ sem.data # None
    THEN { sem.data.results[i].company : i \in DOMAIN sem.data.results }
    ELSE {}

\* r is the hybrid result over the companies in union: they are its companies, their
\* number is the number reported, and facts_data holds the roles of exactly those the
\* facts store knows
HybridOver(r, union) ==
    /\ r.success /\ r.tool_name = "hybrid_search"
    /\ Range(r.data.companies) = union
    /\ Len(r.data.companies) = Cardinality(union)
    /\ DOMAIN r.data.facts_data = { c \in union : get_by_company(c) # <<>> }
    /\ \A c \in DOMAIN r.data.facts_data :
           r.data.facts_data[c].roles = FormatDetails(get_by_company(c))

DetailsRan ==
    /\ ResultOfPlan
    /\ Len(plan.tools_to_use) = 1
    /\ plan.tools_to_use[1].tool = "facts_lookup"
    /\ plan.tools_to_use[1].action = "get_company_details"
    /\ Len(plan.companies_mentioned) >= 2
    /\ result.tool_results # <<>>

RECURSIVE RolesInOrder(_)
\* the role records of the named companies, one company after the other
RolesInOrder(names) ==
    IF names = <<>> THEN <<>>
    ELSE FormatDetails(get_by_company(Head(names))) \o RolesInOrder(Tail(names))

\* r carries exactly these roles and their number, or nothing when there are none
CarriesRoles(r, roles) ==
    IF roles # <<>>
    THEN r.success /\ r.data = [roles |-> roles, count |-> Len(roles)]
    ELSE ~HasData(r)

LLMSynthesisDue ==
    /\ pc = "critiqued" /\ ~ShouldRetry(feedback, retries)
    /\ use_llm /\ plan.intent # "aggregation"
    /\ (result.enriched_results # None \/ result.tool_results # <<>>)
    /\ (result.enriched_results # None =>
           result.enriched_results.entries # <<>> \/ result.tool_results # <<>>)

\* the entries of enriched_results, none for None
EntriesOf(res) == IF res.enriched_results = None THEN <<>> ELSE res.enriched_results.entries

\* a is the response itself when it has at least 50 characters, and the rule-based
\* rendering when it is empty or shorter
VerbatimFrom50(a, response, qp, res) ==
    IF ~response.empty /\ response.len >= 50
    THEN a = [kind |-> "llm", text |-> response]
    ELSE a = _synthesize_rule_based(qp, EntriesOf(res))

\* C23: in the LLM synthesis of a non-aggregation answer, a response of 50 characters
\* or more is returned verbatim, and the rule-based renderer is used exactly when the
\* response is empty or shorter than 50 characters
C23_VerbatimFrom50 ==
    LLMSynthesisDue =>
        \A o \in SynthOutcomes :
            VerbatimFrom50(synthesize(plan, result, feedback, o).text, generate(o), plan, result)

\* ------------------------------------------------------------------------
\* Properties of the retries without the LLM
\* ------------------------------------------------------------------------

\* result holds the outcome of a retried plan none of whose tool calls raised
RetriedCleanly == retries >= 1 /\ ResultOfPlan /\ result.errors = <<>>

\* the result of the single hybrid_search of a retry plan carries data
HybridCarriesData(qp, res) ==
    /\ Len(qp.tools_to_use) = 1 /\ qp.tools_to_use[1].tool = "hybrid_search"
    /\ Len(res.tool_results) = 1
    /\ res.tool_results[1].success /\ res.tool_results[1].data # None
    /\ DOMAIN res.tool_results[1].data # {}

\* the verdict of the rule-based critic on a result with data
Satisfied(fb) == fb.confidence_score = 80 /\ ~fb.needs_retry

\* C24: with the LLM disabled and tool calls that return rather than raise, every query
\* ends with retries <= 1: the plan after the first retry is one hybrid_search, its
\* result always carries data, and the rule-based critic then gives confidence 0.8 and
\* needs_retry false
C24_OneRetryWithoutLLM ==
    ~use_llm =>
        /\ (RetriedCleanly =>
               /\ HybridCarriesData(plan, result)
               /\ (pc \in {"critiqued", "done"} => Satisfied(feedback)))
        /\ (retries > 1 => result.errors # <<>>)

\* C24 witness: without the LLM, the first execution gave nothing, the retry's hybrid
\* search found no company either, and query returned after that one retry
C24_Witness ==
    /\ ~use_llm /\ pc = "done" /\ retries = 1 /\ result.errors = <<>>
    /\ result.tool_results[1].data.companies = <<>>
    /\ DOMAIN result.tool_results[1].data.semantic_results = {}
    /\ Satisfied(feedback)

\* ------------------------------------------------------------------------
\* Properties of the success of hybrid results
\* ------------------------------------------------------------------------

\* r is a successful hybrid result with its data mapping
HybridSuccess(r) ==
    /\ r.success /\ r.tool_name = "hybrid_search"
    /\ r.data # None
    /\ DOMAIN r.data = {"semantic_results", "facts_data", "companies"}

\* the hybrid_search calls of the plan whose dispatch does not raise
HybridCalls(qp) ==
    { i \in DOMAIN qp.tools_to_use :
        /\ Get(qp.tools_to_use[i], "tool", "None") = "hybrid_search"
        /\ Dispatch(qp.tools_to_use[i], qp) # Raised }

\* C25: the hybrid_search dispatch returns success = true and a data mapping, also when
\* the semantic search fails and no company has facts; so, unless the dispatch raises,
\* the execution of a plan that contains a hybrid_search call succeeds, and so does
\* every execution that follows a retry
C25_HybridAlwaysSucceeds ==
    ResultOfPlan =>
        /\ \A i \in HybridCalls(plan) :
               /\ HybridSuccess(Dispatch(plan.tools_to_use[i], plan))
               /\ Dispatch(plan.tools_to_use[i], plan) \in Range(result.tool_results)
               /\ result.success
        /\ (retries >= 1 /\ result.errors = <<>> => result.success)

\* C25 witness: the execution after a retry, with no semantic index and no facts for
\* the company asked about, succeeds with a hybrid result that found nothing
C25_Witness ==
    /\ pc = "executed" /\ retries >= 1 /\ result.success
    /\ SemanticLoad = "not_loaded"
    /\ plan.companies_mentioned # <<>>
    /\ HybridCalls(plan) = {1}
    /\ DOMAIN result.tool_results[1].data.facts_data = {}
    /\ DOMAIN result.tool_results[1].data.semantic_results = {}

\* ------------------------------------------------------------------------
\* Properties of empty enrichment entries
\* ------------------------------------------------------------------------

\* neither store has anything for the company
InNoStore(company_lower) ==
    get_by_company(company_lower) = <<>> /\ get_all_by_company(company_lower) = <<>>

\* entries has an entry for the company, empty when no store knows it
HasEntry(entries, company_lower) ==
    \E i \in DOMAIN entries :
        /\ entries[i].company = Title(company_lower)
        /\ (InNoStore(company_lower) =>
               entries[i].facts = <<>> /\ DOMAIN entries[i].semantic = {})

\* the feedback is the verdict of the rule-based critic
RuleBasedVerdict == pc = "critiqued" /\ feedback.reasoning = "Rule-based evaluation"

\* C26: enrichment creates an entry, with facts [] and semantic {} when neither store
\* has data, for every collected non-empty company name; so for a non-aggregation plan
\* that mentions a company the rule-based critic gives confidence 0.8 and needs_retry
\* false even when every tool call failed, and no retry is taken
C26_EmptyEntriesSatisfyCritic ==
    /\ (ResultOfPlan /\ result.enriched_results # None =>
           \A c \in Range(CompaniesToEnrich(result.tool_results, plan)) :
               HasEntry(result.enriched_results.entries, c))
    /\ (RuleBasedVerdict /\ plan.intent # "aggregation" /\ plan.companies_mentioned # <<>> =>
           /\ feedback.confidence_score = 80
           /\ ~feedback.needs_retry
           /\ ~ShouldRetry(feedback, retries))

\* ------------------------------------------------------------------------
\* Properties of the LLM-backed components on parsed JSON
\* ------------------------------------------------------------------------

\* query ended in an exception of Planner.analyze
AnalyzeRaised == pc = "raised" /\ calls.analyze = 1 /\ calls.execute = 0

\* query ended in an exception of Critic.evaluate
EvaluateRaised == pc = "raised" /\ calls.evaluate >= 1 /\ calls.evaluate = calls.execute

\* C27: analyze and evaluate raise for no LLM response that parses as JSON, a list or
\* an object with "tool": null included: they build a plan or a feedback from it, or
\* fall back to the rule-based path
C27_ParsedJsonNeverRaises ==
    /\ ~AnalyzeRaised
    /\ ~EvaluateRaised
    /\ (pc = "planned" /\ use_llm =>
           \/ plan.reasoning = "LLM analysis"
           \/ plan = _analyze_rule_based(user_query, _extract_companies_fuzzy(user_query)))
    /\ (pc = "critiqued" /\ use_llm =>
           \/ feedback = _evaluate_rule_based(plan, result)
           \/ feedback.reasoning # "Rule-based evaluation")

\* ------------------------------------------------------------------------
\* Properties of the plan across retries
\* ------------------------------------------------------------------------

\* qp agrees with the plan analyze returned in everything but the tools and the
\* fallback flag
SameButTools(qp, planned) ==
    /\ qp.original_query = planned.original_query
    /\ qp.intent = planned.intent
    /\ qp.companies_mentioned = planned.companies_mentioned
    /\ qp.attributes_requested = planned.attributes_requested
    /\ qp.needs_enrichment = planned.needs_enrichment

\* C28: a retry adjustment changes only tools_to_use and fallback_to_hybrid; after any
\* number of retries original_query, intent, companies_mentioned, attributes_requested
\* and needs_enrichment are those of the plan analyze returned, so a plan planned as
\* aggregation is still executed without enrichment and rendered by the aggregation
\* formatter after its tool was replaced by hybrid_search
C28_RetryKeepsPlanFields ==
    /\ (plan # None => SameButTools(plan, analyze(user_query, planner_reply)))
    /\ (pc = "done" /\ retries >= 1 /\ analyze(user_query, planner_reply).intent = "aggregation" =>
           /\ answer = _synthesize_aggregation(plan, result)
           /\ result.enriched_results = None)

\* C28 witness: a plan planned as aggregation with a facts tool, answered after two
\* retries with its single hybrid_search call
C28_Witness ==
    /\ pc = "done" /\ retries = 2
    /\ plan.intent = "aggregation" /\ ~plan.needs_enrichment
    /\ analyze(user_query, planner_reply).tools_to_use[1].tool = "facts_lookup"
    /\ plan.tools_to_use[1].tool = "hybrid_search"
    /\ result.tool_results # <<>>

\* ------------------------------------------------------------------------
\* Properties of original_query
\* ------------------------------------------------------------------------

\* C29: on every path of analyze (LLM, rule-based aggregation, comparison, hybrid) the
\* plan's original_query is exactly the query passed to analyze, letter case included
C29_OriginalQueryVerbatim ==
    plan # None => plan.original_query = user_query

\* ------------------------------------------------------------------------
\* Properties of a retry after a hybrid plan
\* ------------------------------------------------------------------------

\* analyze returned the rule-based plan of one hybrid_search over the query and the
\* companies detected
PlannedHybrid ==
    /\ plan # None
    /\ analyze(user_query, planner_reply)
           = _plan_hybrid(user_query, _extract_companies_fuzzy(user_query))

\* C30: when a retry follows the execution of the rule-based single hybrid_search plan,
\* the retried execution makes the same semantic search (same query, general, top_k 3)
\* and the same facts lookups, so with the stores unchanged its tool results equal
\* those of the execution before; the top_k 10 of the retry plan changes nothing
C30_RetryRepeatsHybrid ==
    [][pc = "adjusted" /\ pc' = "executed" /\ PlannedHybrid =>
          /\ plan.tools_to_use[1].params.top_k = 10
          /\ plan.tools_to_use[1].params.query = plan.original_query
          /\ plan.tools_to_use[1].params.companies = plan.companies_mentioned
          /\ result'.tool_results = result.tool_results]_vars

\* C30 witness: the hybrid plan was executed again after a retry, over a semantic store
\* where a search with top_k 10 finds more than one with top_k 5, and the hybrid
\* result names companies
C30_Witness ==
    /\ pc = "executed" /\ retries >= 1 /\ PlannedHybrid
    /\ Len(search(10, NoneStr, "None")) > Len(search(5, NoneStr, "None"))
    /\ result.tool_results # <<>>
    /\ result.tool_results[1].data.companies # <<>>
    /\ plan.companies_mentioned # <<>>

====
